---- MODULE Spec2Model ----
(***************************************************************************)
(* ccommon: the non-blocking connection layer (src/src/cc_nio.c) and the   *)
(* stream layer on top of it (src/src/cc_stream.c), driven by an           *)
(* edge-triggered readiness multiplexer (src/src/event/cc_epoll.c).        *)
(*                                                                         *)
(* One stream bound to one TCP connection.  The kernel socket is the       *)
(* environment: it holds the bytes the peer has sent, the space the send   *)
(* buffer has left, a peer close, a pending socket error, and the edge     *)
(* notifications the multiplexer has not delivered yet.                    *)
(***************************************************************************)
EXTENDS Integers, Sequences, FiniteSets, TLC

(***************************** bounds **************************************)
\* capacity of an mbuf (rbuf and wbuf)
MbufCap == 3
\* largest nbyte a caller passes to stream_read / stream_write
MaxNbyte == 3
\* most EINTR failures of one read/write before it completes
MaxEintr == 1
\* most bytes the peer ever sends
MaxPeerBytes == 4
\* most bytes the application ever appends to wbuf
MaxAppBytes == 3
\* size of the kernel send buffer
SndBuf == 2
\* largest nevent given to event_base_create
MaxNevent == 2
\* most event bases ever created
MaxBases == 2
\* most event_base_destroy calls on one event base
MaxDestroy == 2
\* largest max given to stream_pool_create
MaxPool == 2
\* most streams stream_create ever allocates
MaxStreams == 3
\* OPTLINE_MAXLEN, OPTNAME_MAXLEN and OPTVAL_MAXLEN of cc_option.h, scaled down
OPTLINE_MAXLEN == 6
OPTNAME_MAXLEN == 2
OPTVAL_MAXLEN == 3
\* the longest line handed to option_parse
MaxLine == 7
\* the most lines an option file has
MaxFileLines == 3
MaxSets == 2
\* the largest uintmax_t, scaled down to a width of six bits
UINTMAX_MAX == 63

(*************************** program constants *****************************)
CC_OK == 0
CC_ERROR == -1
CC_EAGAIN == -2
CC_ENOMEM == -3
CC_EEMPTY == -4
CC_ERETRY == -5
CC_ERDHUP == -6

CONN_CONNECT == 0
CONN_CONNECTED == 1
CONN_EOF == 2
CONN_CLOSE == 3

EINTR == 4
EAGAIN == 11
EWOULDBLOCK == 11
ECONNRESET == 104
ETIMEDOUT == 110
EBADF == 9
EINVAL == 22

EVENT_READ == 255
EVENT_WRITE == 65280
EVENT_ERR == 16711680

EPOLLIN == 1
EPOLLPRI == 2
EPOLLOUT == 4
EPOLLERR == 8
EPOLLHUP == 16
EPOLLRDHUP == 8192

VARIABLES
    conn,     \* struct conn: recv_ready, send_ready, recv_nbyte, send_nbyte, state, err
    rbuf,     \* stream->rbuf: [rpos, wpos], offsets from the start of the mbuf
    wbuf,     \* stream->wbuf
    handler,  \* stream->handler: which hooks are present
    sock,     \* the kernel socket behind conn->sd
    ep,       \* edge notifications queued in the multiplexer, not delivered yet
    hist,     \* the call that has just returned (a scripted run keeps them all)
    aborted,  \* an ASSERT failed in a build where ASSERT panics
    pc,       \* the direction the application drives, or its place in a scripted run
    heap,     \* the event bases event_base_create has made, with their kernel handles
    wait,     \* the event_wait call in progress, or the last one
    pool,     \* streamp, the stream pool, and the streams made for it
    options   \* the option table, the file it is loaded from, the line parsed

vars == <<conn, rbuf, wbuf, handler, sock, ep, hist, aborted, pc, heap, wait, pool,
          options>>

\* the variables of the stream and its connection
ioVars == <<conn, rbuf, wbuf, handler, sock, ep, hist, pc>>

(******************************* mbuf **************************************)
\* bytes that can still be written: end - wpos
MbufWsize(b) == MbufCap - b.wpos

\* bytes that can be read: wpos - rpos
MbufRsize(b) == b.wpos - b.rpos

\* move the unread bytes to the start of the buffer
MbufLshift(b) == [rpos |-> 0, wpos |-> b.wpos - b.rpos]

(***************************** syscalls ************************************)
\* the result of one read/write: n >= 0 bytes, or n = -1 with errno
Ok(n) == [n |-> n, errno |-> 0]

Fail(e) == [n |-> -1, errno |-> e]

Min(a, b) == IF a < b THEN a ELSE b

\* read(sd, buf, nbyte) on a non-blocking stream socket: queued bytes first,
\* then a pending socket error, then end of file, else EAGAIN
SockRead(s, nbyte) ==
    IF s.rx > 0 /\ nbyte > 0
    THEN [out |-> Ok(Min(nbyte, s.rx)), sock |-> [s EXCEPT !.rx = @ - Min(nbyte, s.rx)]]
    ELSE IF s.err # 0 THEN [out |-> Fail(s.err), sock |-> s]
    ELSE IF s.fin \/ nbyte = 0 THEN [out |-> Ok(0), sock |-> s]
    ELSE [out |-> Fail(EAGAIN), sock |-> s]

\* write(sd, buf, nbyte) on a non-blocking stream socket: a pending socket
\* error, else as many bytes as the send buffer has room for, else EAGAIN
SockWrite(s, nbyte) ==
    IF s.err # 0 THEN [out |-> Fail(s.err), sock |-> s]
    ELSE IF nbyte = 0 THEN [out |-> Ok(0), sock |-> s]
    ELSE IF s.txfree = 0 THEN [out |-> Fail(EAGAIN), sock |-> s]
    ELSE [out |-> Ok(Min(nbyte, s.txfree)),
          sock |-> [s EXCEPT !.txfree = @ - Min(nbyte, s.txfree)]]

\* j interrupted attempts, then the attempt that completes
Outcomes(j, final) == [i \in 1..(j + 1) |-> IF i <= j THEN Fail(EINTR) ELSE final]

(***************************** cc_nio.c ************************************)
\* the branches of the loop body of conn_recv, shared by the faulty variants below
RecvData(c, nbyte, o) ==
    [conn |-> [c EXCEPT !.recv_ready = IF o.n < nbyte THEN FALSE ELSE @,
                        !.recv_nbyte = @ + o.n],
     ret |-> o.n, done |-> TRUE]

RecvEof(c) ==
    [conn |-> [c EXCEPT !.recv_ready = FALSE, !.state = CONN_EOF], ret |-> 0, done |-> TRUE]

RecvEintr(c) == [conn |-> c, ret |-> 0, done |-> FALSE]

RecvEagain(c) ==
    [conn |-> [c EXCEPT !.recv_ready = FALSE], ret |-> CC_EAGAIN, done |-> TRUE]

RecvError(c, o) ==
    [conn |-> [c EXCEPT !.recv_ready = FALSE, !.err = o.errno],
     ret |-> CC_ERROR, done |-> TRUE]

\* faulty variant: a full read clears recv_ready too
ConnRecvIterClearOnFull(c, nbyte, o) ==
    IF o.n > 0
    THEN [conn |-> [c EXCEPT !.recv_ready = FALSE, !.recv_nbyte = @ + o.n],
          ret |-> o.n, done |-> TRUE]
    ELSE IF o.n = 0 THEN RecvEof(c)
    ELSE IF o.errno = EINTR THEN RecvEintr(c)
    ELSE IF o.errno = EAGAIN \/ o.errno = EWOULDBLOCK THEN RecvEagain(c)
    ELSE RecvError(c, o)

\* faulty variant: a read of 0 bytes does not mark the connection EOF
ConnRecvIterNoEof(c, nbyte, o) ==
    IF o.n > 0 THEN RecvData(c, nbyte, o)
    ELSE IF o.n = 0
    THEN [conn |-> [c EXCEPT !.recv_ready = FALSE], ret |-> 0, done |-> TRUE]
    ELSE IF o.errno = EINTR THEN RecvEintr(c)
    ELSE IF o.errno = EAGAIN \/ o.errno = EWOULDBLOCK THEN RecvEagain(c)
    ELSE RecvError(c, o)

\* faulty variant: EINTR is not retried, it fails like any other errno
ConnRecvIterEintrFatal(c, nbyte, o) ==
    IF o.n > 0 THEN RecvData(c, nbyte, o)
    ELSE IF o.n = 0 THEN RecvEof(c)
    ELSE IF o.errno = EAGAIN \/ o.errno = EWOULDBLOCK THEN RecvEagain(c)
    ELSE RecvError(c, o)

\* faulty variant: EAGAIN is not told apart, it fails like any other errno
ConnRecvIterEagainFatal(c, nbyte, o) ==
    IF o.n > 0 THEN RecvData(c, nbyte, o)
    ELSE IF o.n = 0 THEN RecvEof(c)
    ELSE IF o.errno = EINTR THEN RecvEintr(c)
    ELSE RecvError(c, o)

\* one pass of the for (;;) loop of conn_recv on the result o of cc_read
ConnRecvIter(c, nbyte, o) ==
    IF o.n > 0
    THEN [conn |-> [c EXCEPT !.recv_ready = IF o.n < nbyte THEN FALSE ELSE @,
                             !.recv_nbyte = @ + o.n],
          ret |-> o.n, done |-> TRUE]
    ELSE IF o.n = 0
    THEN [conn |-> [c EXCEPT !.recv_ready = FALSE, !.state = CONN_EOF],
          ret |-> 0, done |-> TRUE]
    ELSE IF o.errno = EINTR
    THEN [conn |-> c, ret |-> 0, done |-> FALSE]
    ELSE IF o.errno = EAGAIN \/ o.errno = EWOULDBLOCK
    THEN [conn |-> [c EXCEPT !.recv_ready = FALSE], ret |-> CC_EAGAIN, done |-> TRUE]
    ELSE [conn |-> [c EXCEPT !.recv_ready = FALSE, !.err = o.errno],
          ret |-> CC_ERROR, done |-> TRUE]

\* the for (;;) loop of conn_recv over the results outs of successive cc_read
\* calls; nsys is the number of cc_read calls made
RECURSIVE ConnRecvLoop(_, _, _)
ConnRecvLoop(c, nbyte, outs) ==
    LET it == ConnRecvIter(c, nbyte, Head(outs)) IN
    IF it.done \/ Len(outs) = 1
    THEN [conn |-> it.conn, ret |-> it.ret, nsys |-> 1]
    ELSE LET r == ConnRecvLoop(it.conn, nbyte, Tail(outs)) IN [r EXCEPT !.nsys = @ + 1]

\* faulty variant: conn_recv returns 0 at once on a connection that has seen EOF
ConnRecvEofShortcut(c, nbyte, outs) ==
    IF c.state = CONN_EOF THEN [conn |-> c, ret |-> 0, nsys |-> 0]
    ELSE ConnRecvLoop(c, nbyte, outs)

\* conn_recv(conn, buf, nbyte): nothing but the loop
ConnRecv(c, nbyte, outs) == ConnRecvLoop(c, nbyte, outs)

\* faulty variant: a short write leaves send_ready set
ConnSendIterKeepOnShort(c, nbyte, o) ==
    IF o.n > 0
    THEN [conn |-> [c EXCEPT !.send_nbyte = @ + o.n], ret |-> o.n, done |-> TRUE]
    ELSE IF o.n = 0
    THEN [conn |-> [c EXCEPT !.send_ready = FALSE], ret |-> 0, done |-> TRUE]
    ELSE IF o.errno = EINTR
    THEN [conn |-> c, ret |-> 0, done |-> FALSE]
    ELSE IF o.errno = EAGAIN \/ o.errno = EWOULDBLOCK
    THEN [conn |-> [c EXCEPT !.send_ready = FALSE], ret |-> CC_EAGAIN, done |-> TRUE]
    ELSE [conn |-> [c EXCEPT !.send_ready = FALSE, !.err = o.errno],
          ret |-> CC_ERROR, done |-> TRUE]

\* faulty variant: a failed write does not record errno in conn->err
ConnSendIterErrLost(c, nbyte, o) ==
    IF o.n > 0
    THEN [conn |-> [c EXCEPT !.send_ready = IF o.n < nbyte THEN FALSE ELSE @,
                             !.send_nbyte = @ + o.n],
          ret |-> o.n, done |-> TRUE]
    ELSE IF o.n = 0
    THEN [conn |-> [c EXCEPT !.send_ready = FALSE], ret |-> 0, done |-> TRUE]
    ELSE IF o.errno = EINTR
    THEN [conn |-> c, ret |-> 0, done |-> FALSE]
    ELSE IF o.errno = EAGAIN \/ o.errno = EWOULDBLOCK
    THEN [conn |-> [c EXCEPT !.send_ready = FALSE], ret |-> CC_EAGAIN, done |-> TRUE]
    ELSE [conn |-> [c EXCEPT !.send_ready = FALSE], ret |-> CC_ERROR, done |-> TRUE]

\* one pass of the for (;;) loop of conn_send on the result o of cc_write
ConnSendIter(c, nbyte, o) ==
    IF o.n > 0
    THEN [conn |-> [c EXCEPT !.send_ready = IF o.n < nbyte THEN FALSE ELSE @,
                             !.send_nbyte = @ + o.n],
          ret |-> o.n, done |-> TRUE]
    ELSE IF o.n = 0
    THEN [conn |-> [c EXCEPT !.send_ready = FALSE], ret |-> 0, done |-> TRUE]
    ELSE IF o.errno = EINTR
    THEN [conn |-> c, ret |-> 0, done |-> FALSE]
    ELSE IF o.errno = EAGAIN \/ o.errno = EWOULDBLOCK
    THEN [conn |-> [c EXCEPT !.send_ready = FALSE], ret |-> CC_EAGAIN, done |-> TRUE]
    ELSE [conn |-> [c EXCEPT !.send_ready = FALSE, !.err = o.errno],
          ret |-> CC_ERROR, done |-> TRUE]

\* the for (;;) loop of conn_send over the results outs of successive
\* cc_write calls
RECURSIVE ConnSendLoop(_, _, _)
ConnSendLoop(c, nbyte, outs) ==
    LET it == ConnSendIter(c, nbyte, Head(outs)) IN
    IF it.done \/ Len(outs) = 1
    THEN [conn |-> it.conn, ret |-> it.ret, nsys |-> 1]
    ELSE LET r == ConnSendLoop(it.conn, nbyte, Tail(outs)) IN [r EXCEPT !.nsys = @ + 1]

\* conn_send(conn, buf, nbyte): nothing but the loop
ConnSend(c, nbyte, outs) == ConnSendLoop(c, nbyte, outs)

(**************************** cc_stream.c **********************************)
\* what a hook of the given kind does to the buffer it is called on
Hook(kind, b) == IF kind = "lshift" THEN MbufLshift(b) ELSE b

\* the hooks invoked so far, followed by hook name(stream, arg) when present;
\* pos is the cursor the call moves (rbuf.wpos, wbuf.rpos) as the hook sees it
Invoke(hooks, kind, name, arg, pos) ==
    IF kind = "NULL" THEN hooks
    ELSE Append(hooks, [hook |-> name, arg |-> arg, pos |-> pos])

\* faulty variant: the cursor moves by n even when n is an error sentinel
AdvanceRaw(pos, n) == pos + n

\* the cursor after a transfer that returned n: pos += (n > 0) ? n : 0
Advance(pos, n) == pos + (IF n > 0 THEN n ELSE 0)

\* faulty variant: a full read is reported OK, like a short one
ReadStatusFullOk(n, nbyte) ==
    IF n < 0 THEN (IF n = CC_EAGAIN THEN CC_OK ELSE CC_ERROR)
    ELSE IF n = 0 THEN CC_ERDHUP
    ELSE CC_OK

\* the status stream_read gives the return value n of conn_recv
ReadStatus(n, nbyte) ==
    IF n < 0 THEN (IF n = CC_EAGAIN THEN CC_OK ELSE CC_ERROR)
    ELSE IF n = 0 THEN CC_ERDHUP
    ELSE IF n = nbyte THEN CC_ERETRY
    ELSE CC_OK

\* faulty variant: the capacity check is off by one
RbufShortOffByOne(rb, nbyte) == MbufWsize(rb) + 1 < nbyte

\* rbuf cannot take nbyte more bytes
RbufShort(rb, nbyte) == MbufWsize(rb) < nbyte

\* faulty variant: pre_read is called only once the capacity check has passed
StreamReadCheckFirst(s, nbyte, outs) ==
    LET h == s.handler
        hooks1 == Invoke(<<>>, h.pre_read, "pre_read", nbyte, s.rbuf.wpos)
        rbuf1 == Hook(h.pre_read, s.rbuf)
    IN
    IF RbufShort(s.rbuf, nbyte)
    THEN [conn |-> s.conn, rbuf |-> s.rbuf, status |-> CC_ENOMEM, called |-> FALSE,
          ret |-> 0, req |-> 0, sys |-> <<>>, hooks |-> <<>>, asserted |-> FALSE]
    ELSE
        LET r == ConnRecv(s.conn, nbyte, outs)
            n == r.ret
            rbuf2 == [rbuf1 EXCEPT !.wpos = Advance(@, n)]
        IN [conn |-> r.conn, rbuf |-> rbuf2, status |-> ReadStatus(n, nbyte),
            called |-> TRUE, ret |-> n, req |-> nbyte, sys |-> SubSeq(outs, 1, r.nsys),
            hooks |-> IF n > 0
                      THEN Invoke(hooks1, h.post_read, "post_read", n, rbuf2.wpos)
                      ELSE hooks1,
            asserted |-> ~(nbyte > 0 /\ s.conn.recv_ready)]

\* stream_read(stream, nbyte) on a CHANNEL_TCP stream s = [conn, rbuf, handler],
\* outs being the results of the cc_read calls it gets to make
StreamRead(s, nbyte, outs) ==
    LET h == s.handler
        hooks1 == Invoke(<<>>, h.pre_read, "pre_read", nbyte, s.rbuf.wpos)
        rbuf1 == Hook(h.pre_read, s.rbuf)
    IN
    IF RbufShort(rbuf1, nbyte)
    THEN [conn |-> s.conn, rbuf |-> rbuf1, status |-> CC_ENOMEM, called |-> FALSE,
          ret |-> 0, req |-> 0, sys |-> <<>>, hooks |-> hooks1, asserted |-> FALSE]
    ELSE
        LET r == ConnRecv(s.conn, nbyte, outs)
            n == r.ret
            rbuf2 == [rbuf1 EXCEPT !.wpos = Advance(@, n)]
        IN [conn |-> r.conn, rbuf |-> rbuf2, status |-> ReadStatus(n, nbyte),
            called |-> TRUE, ret |-> n, req |-> nbyte, sys |-> SubSeq(outs, 1, r.nsys),
            hooks |-> IF n > 0
                      THEN Invoke(hooks1, h.post_read, "post_read", n, rbuf2.wpos)
                      ELSE hooks1,
            asserted |-> ~(nbyte > 0 /\ s.conn.recv_ready)]

\* faulty variant: an empty wbuf is sent like any other
NoContentNever(wb) == FALSE

\* wbuf holds nothing to send: content == 0
NoContent(wb) == MbufRsize(wb) = 0

\* faulty variant: stream_write sends at most nbyte bytes
SendRequestNbyte(nbyte, content) == IF nbyte < content THEN nbyte ELSE content

\* the byte count stream_write(stream, nbyte) passes to conn_send
SendRequest(nbyte, content) == content

\* faulty variant: a short send is reported OK
WriteStatusShortOk(n, content) == CC_OK

\* the status stream_write gives the return value n >= 0 of conn_send
WriteStatus(n, content) == IF n < content THEN CC_ERETRY ELSE CC_OK

\* stream_write(stream, nbyte) on a CHANNEL_TCP stream s = [conn, wbuf, handler],
\* outs being the results of the cc_write calls it gets to make
StreamWrite(s, nbyte, outs) ==
    LET h == s.handler
        hooks1 == Invoke(<<>>, h.pre_write, "pre_write", nbyte, s.wbuf.rpos)
        wbuf1 == Hook(h.pre_write, s.wbuf)
        content == MbufRsize(wbuf1)
    IN
    IF NoContent(wbuf1)
    THEN [conn |-> s.conn, wbuf |-> wbuf1, status |-> CC_EEMPTY, called |-> FALSE,
          ret |-> 0, req |-> 0, sys |-> <<>>, hooks |-> hooks1, asserted |-> FALSE]
    ELSE
        LET req == SendRequest(nbyte, content)
            r == ConnSend(s.conn, req, outs)
            n == r.ret
            asserted == ~(req > 0 /\ s.conn.send_ready)
        IN
        IF n < 0
        THEN [conn |-> r.conn, wbuf |-> wbuf1,
              status |-> IF n = CC_EAGAIN THEN CC_EAGAIN ELSE CC_ERROR,
              called |-> TRUE, ret |-> n, req |-> req,
              sys |-> SubSeq(outs, 1, r.nsys), hooks |-> hooks1, asserted |-> asserted]
        ELSE
            LET wbuf2 == [wbuf1 EXCEPT !.rpos = Advance(@, n)] IN
            [conn |-> r.conn, wbuf |-> wbuf2, status |-> WriteStatus(n, content),
             called |-> TRUE, ret |-> n, req |-> req,
             sys |-> SubSeq(outs, 1, r.nsys),
             hooks |-> IF n > 0
                       THEN Invoke(hooks1, h.post_write, "post_write", n, wbuf2.rpos)
                       ELSE hooks1,
             asserted |-> asserted]

(************************** state and records ******************************)
\* the handler tables streams are given: no hook, every hook, only the pre
\* hooks (pre_read making room in rbuf), only the post hooks
Handlers ==
    { [pre_read |-> "NULL", post_read |-> "NULL", pre_write |-> "NULL", post_write |-> "NULL"],
      [pre_read |-> "nop", post_read |-> "nop", pre_write |-> "nop", post_write |-> "nop"],
      [pre_read |-> "lshift", post_read |-> "NULL", pre_write |-> "nop", post_write |-> "NULL"],
      [pre_read |-> "NULL", post_read |-> "nop", pre_write |-> "NULL", post_write |-> "nop"] }

\* a connection as conn_reset leaves it, once connected
ConnInit ==
    [recv_ready |-> FALSE, send_ready |-> FALSE, recv_nbyte |-> 0, send_nbyte |-> 0,
     state |-> CONN_CONNECTED, err |-> 0]

MbufInit == [rpos |-> 0, wpos |-> 0]

\* the stream as the calls see it
Stream == [conn |-> conn, rbuf |-> rbuf, wbuf |-> wbuf, handler |-> handler]

Snapshot(c, rb, wb, sk) == [conn |-> c, rbuf |-> rb, wbuf |-> wb, sock |-> sk]

\* the record of a call: what it was given, what its conn_recv/conn_send was
\* asked (req), saw (sys) and returned (ret), what the call returned, and the
\* stream and the socket before and after it
CallRecord(op, nbyte, res, rb, wb, sk) ==
    [op |-> op, nbyte |-> nbyte, status |-> res.status, called |-> res.called,
     req |-> res.req, ret |-> res.ret, sys |-> res.sys, hooks |-> res.hooks,
     asserted |-> res.asserted,
     pre |-> Snapshot(conn, rbuf, wbuf, sock), post |-> Snapshot(res.conn, rb, wb, sk)]

SockInit == [rx |-> 0, fin |-> FALSE, err |-> 0, txfree |-> SndBuf]

NoCall ==
    [op |-> "none", nbyte |-> 0, status |-> CC_OK, called |-> FALSE, req |-> 0,
     ret |-> 0, sys |-> <<>>, hooks |-> <<>>, asserted |-> FALSE,
     pre |-> Snapshot(ConnInit, MbufInit, MbufInit, SockInit),
     post |-> Snapshot(ConnInit, MbufInit, MbufInit, SockInit)]

\* the last call made
Last == IF hist = <<>> THEN NoCall ELSE hist[Len(hist)]

\* a connected stream, registered with the multiplexer; the socket is
\* writable, which the multiplexer reports once
InitStream ==
    /\ conn = ConnInit
    /\ rbuf = MbufInit
    /\ wbuf = MbufInit
    /\ handler \in Handlers
    /\ sock = SockInit
    /\ ep = [rd |-> FALSE, wr |-> TRUE]
    /\ hist = <<>>
    /\ aborted = FALSE

(***************************** environment *********************************)
\* the peer sends k bytes: they queue in the socket and raise a read edge
PeerSend(k) ==
    /\ ~aborted
    /\ ~sock.fin /\ sock.err = 0
    /\ conn.recv_nbyte + sock.rx + k <= MaxPeerBytes
    /\ sock' = [sock EXCEPT !.rx = @ + k]
    /\ ep' = [ep EXCEPT !.rd = TRUE]
    /\ UNCHANGED <<conn, rbuf, wbuf, handler, aborted, pc>>

\* the peer closes its end: end of file follows the queued bytes
PeerClose ==
    /\ ~aborted
    /\ ~sock.fin /\ sock.err = 0
    /\ sock' = [sock EXCEPT !.fin = TRUE]
    /\ ep' = [ep EXCEPT !.rd = TRUE]
    /\ UNCHANGED <<conn, rbuf, wbuf, handler, aborted, pc>>

\* the connection breaks: reads (once drained) and writes fail with e
SockError(e) ==
    /\ ~aborted
    /\ sock.err = 0
    /\ sock' = [sock EXCEPT !.err = e]
    /\ ep' = [rd |-> TRUE, wr |-> TRUE]
    /\ UNCHANGED <<conn, rbuf, wbuf, handler, aborted, pc>>

\* the peer acknowledges k bytes: the send buffer gets room again, and a
\* socket that had none raises a write edge
SockAck(k) ==
    /\ ~aborted
    /\ sock.txfree + k <= SndBuf
    /\ sock' = [sock EXCEPT !.txfree = @ + k]
    /\ ep' = [ep EXCEPT !.wr = @ \/ sock.txfree = 0]
    /\ UNCHANGED <<conn, rbuf, wbuf, handler, aborted, pc>>

(***************************** application *********************************)
\* event_wait hands the queued edges to the callback, which sets recv_ready
\* on READ and send_ready on WRITE
Dispatch ==
    /\ ~aborted
    /\ ep.rd \/ ep.wr
    /\ conn' = [conn EXCEPT !.recv_ready = @ \/ ep.rd, !.send_ready = @ \/ ep.wr]
    /\ ep' = [rd |-> FALSE, wr |-> FALSE]
    /\ UNCHANGED <<rbuf, wbuf, handler, sock, aborted>>

\* the application takes k bytes out of rbuf
AppConsume(k) ==
    /\ ~aborted
    /\ k <= MbufRsize(rbuf)
    /\ rbuf' = [rbuf EXCEPT !.rpos = @ + k]
    /\ UNCHANGED <<conn, wbuf, handler, sock, ep, aborted, pc>>

\* the application appends k bytes to wbuf
AppFill(k) ==
    /\ ~aborted
    /\ k <= MbufWsize(wbuf)
    /\ conn.send_nbyte + MbufRsize(wbuf) + k <= MaxAppBytes
    /\ wbuf' = [wbuf EXCEPT !.wpos = @ + k]
    /\ UNCHANGED <<conn, rbuf, handler, sock, ep, aborted, pc>>

\* a failed ASSERT stops the process where ASSERT panics
Abort ==
    /\ aborted' = TRUE
    /\ UNCHANGED <<conn, rbuf, wbuf, handler, sock, ep, hist, pc>>

\* stream_read(stream, nbyte), its read interrupted j times; where the
\* ASSERTs of conn_recv fail, the process stops or, ASSERT compiled out, goes on
DoStreamRead(nbyte, j, keep) ==
    LET rd == SockRead(sock, nbyte)
        outs == Outcomes(j, rd.out)
        res == StreamRead(Stream, nbyte, outs)
        sk == IF Len(res.sys) = Len(outs) THEN rd.sock ELSE sock
        rec == CallRecord("stream_read", nbyte, res, res.rbuf, wbuf, sk)
    IN
    /\ ~aborted
    /\ \/ /\ res.asserted
          /\ Abort
       \/ /\ conn' = res.conn
          /\ rbuf' = res.rbuf
          /\ sock' = sk
          /\ hist' = IF keep THEN Append(hist, rec) ELSE <<rec>>
          /\ pc' = IF keep THEN "read" \o ToString(Len(hist) + 1)
                   ELSE IF pc \in {"idle", "reading"}
                   THEN (IF res.status = CC_ERETRY THEN "reading" ELSE "idle")
                   ELSE pc
          /\ UNCHANGED <<wbuf, handler, ep, aborted>>

\* stream_write(stream, nbyte), its write interrupted j times
DoStreamWrite(nbyte, j) ==
    LET content == MbufRsize(Hook(handler.pre_write, wbuf))
        wr == SockWrite(sock, content)
        outs == Outcomes(j, wr.out)
        res == StreamWrite(Stream, nbyte, outs)
        sk == IF Len(res.sys) = Len(outs) THEN wr.sock ELSE sock
        rec == CallRecord("stream_write", nbyte, res, rbuf, res.wbuf, sk)
    IN
    /\ ~aborted
    /\ \/ /\ res.asserted
          /\ Abort
       \/ /\ conn' = res.conn
          /\ wbuf' = res.wbuf
          /\ sock' = sk
          /\ hist' = <<rec>>
          /\ pc' = IF pc \in {"waiting", "writing"}
                   THEN (IF res.status \in {CC_ERETRY, CC_EAGAIN} THEN "waiting"
                         ELSE IF res.status = CC_ERROR THEN "closed"
                         ELSE "writing")
                   ELSE pc
          /\ UNCHANGED <<rbuf, handler, ep, aborted>>

\* a step of the stream leaves the event bases and the stream pool alone
IoOnly == UNCHANGED <<heap, wait, pool, options>>

(************ the application calls in any order, one direction ************)
Init ==
    /\ InitStream
    /\ pc \in {"recv", "send"}
    /\ heap = <<>> /\ wait = <<>> /\ pool = <<>> /\ options = <<>>

Next ==
    \/ \E k \in 1..MaxPeerBytes : pc = "recv" /\ PeerSend(k) /\ hist' = <<>> /\ IoOnly
    \/ pc = "recv" /\ PeerClose /\ hist' = <<>> /\ IoOnly
    \/ \E e \in {ECONNRESET, ETIMEDOUT} : SockError(e) /\ hist' = <<>> /\ IoOnly
    \/ \E k \in 1..SndBuf : pc = "send" /\ SockAck(k) /\ hist' = <<>> /\ IoOnly
    \/ Dispatch /\ hist' = <<>> /\ UNCHANGED pc /\ IoOnly
    \/ \E k \in 1..MbufCap : pc = "recv" /\ AppConsume(k) /\ hist' = <<>> /\ IoOnly
    \/ \E k \in 1..MbufCap : pc = "send" /\ AppFill(k) /\ hist' = <<>> /\ IoOnly
    \/ \E nbyte \in 1..MaxNbyte, j \in 0..MaxEintr :
          pc = "recv" /\ DoStreamRead(nbyte, j, FALSE) /\ IoOnly
    \/ \E nbyte \in 1..MaxNbyte, j \in 0..MaxEintr :
          pc = "send" /\ DoStreamWrite(nbyte, j) /\ IoOnly

Spec == Init /\ [][Next]_vars

(******** the reactor: read on a READ notification, while ERETRY ***********)
RInit ==
    /\ InitStream
    /\ pc = "idle"
    /\ heap = <<>> /\ wait = <<>> /\ pool = <<>> /\ options = <<>>

\* event_wait returns; on READ the callback goes on to read
RDispatch ==
    /\ pc = "idle"
    /\ Dispatch
    /\ hist' = <<>>
    /\ pc' = IF ep.rd THEN "reading" ELSE "idle"

RNext ==
    \/ \E k \in 1..MaxPeerBytes : PeerSend(k) /\ hist' = <<>> /\ IoOnly
    \/ PeerClose /\ hist' = <<>> /\ IoOnly
    \/ \E e \in {ECONNRESET, ETIMEDOUT} : SockError(e) /\ hist' = <<>> /\ IoOnly
    \/ RDispatch /\ IoOnly
    \/ \E k \in 1..MbufCap : pc = "idle" /\ AppConsume(k) /\ hist' = <<>> /\ IoOnly
    \/ \E nbyte \in 1..MaxNbyte, j \in 0..MaxEintr :
          pc = "reading" /\ DoStreamRead(nbyte, j, FALSE) /\ IoOnly

SpecReactor == RInit /\ [][RNext]_vars

(**** the writer: write on a WRITE notification, wait on ERETRY/EAGAIN *****)
WInit ==
    /\ InitStream
    /\ pc = "waiting"
    /\ heap = <<>> /\ wait = <<>> /\ pool = <<>> /\ options = <<>>

\* event_wait returns; on WRITE the callback sets send_ready and the caller
\* goes on to write
WDispatch ==
    /\ pc \in {"waiting", "writing"}
    /\ Dispatch
    /\ hist' = <<>>
    /\ pc' = IF ep.wr THEN "writing" ELSE pc

\* the peer acknowledges bytes
WSockAck == \E k \in 1..SndBuf : SockAck(k) /\ hist' = <<>> /\ IoOnly

\* the caller calls stream_write: after a WRITE notification, or again after
\* CC_OK or CC_EEMPTY
WWrite ==
    \E nbyte \in 1..MaxNbyte, j \in 0..MaxEintr :
        pc = "writing" /\ DoStreamWrite(nbyte, j) /\ IoOnly

WNext ==
    \/ \E e \in {ECONNRESET, ETIMEDOUT} : SockError(e) /\ hist' = <<>> /\ IoOnly
    \/ WSockAck
    \/ WDispatch /\ IoOnly
    \/ \E k \in 1..MbufCap : pc # "closed" /\ AppFill(k) /\ hist' = <<>> /\ IoOnly
    \/ WWrite

\* the event loop keeps running, the caller writes when it may, and the peer
\* keeps acknowledging what it was sent
SpecWriter ==
    /\ WInit /\ [][WNext]_vars
    /\ WF_vars(WSockAck) /\ WF_vars(WDispatch /\ IoOnly) /\ WF_vars(WWrite)

(****** peer hang-up: k bytes and a close before the reactor runs **********)
HInit ==
    /\ InitStream
    /\ pc = "start"
    /\ heap = <<>> /\ wait = <<>> /\ pool = <<>> /\ options = <<>>

\* the peer sends k bytes
HPeerSend(k) ==
    /\ pc = "start"
    /\ PeerSend(k)
    /\ hist' = <<>>

\* and closes
HPeerClose ==
    /\ pc = "start"
    /\ sock.rx > 0
    /\ sock' = [sock EXCEPT !.fin = TRUE]
    /\ ep' = [ep EXCEPT !.rd = TRUE]
    /\ pc' = "closed"
    /\ UNCHANGED <<conn, rbuf, wbuf, handler, hist, aborted>>

\* one event_wait: the callback sets recv_ready
HEventWait ==
    /\ pc = "closed"
    /\ Dispatch
    /\ pc' = "ready"
    /\ UNCHANGED hist

\* stream_read(s, nbyte) for more than the socket holds
HRead1(nbyte, j) ==
    /\ pc = "ready"
    /\ nbyte > sock.rx
    /\ ~RbufShort(Hook(handler.pre_read, rbuf), nbyte)
    /\ DoStreamRead(nbyte, j, TRUE)

\* the next stream_read on the same stream
HRead2(nbyte, j) ==
    /\ pc = "read1"
    /\ ~RbufShort(Hook(handler.pre_read, rbuf), nbyte)
    /\ DoStreamRead(nbyte, j, TRUE)

HNext ==
    \/ \E k \in 1..MaxPeerBytes : HPeerSend(k) /\ IoOnly
    \/ HPeerClose /\ IoOnly
    \/ HEventWait /\ IoOnly
    \/ \E nbyte \in 1..MaxNbyte, j \in 0..MaxEintr : HRead1(nbyte, j) /\ IoOnly
    \/ \E nbyte \in 1..MaxNbyte, j \in 0..MaxEintr : HRead2(nbyte, j) /\ IoOnly

SpecHangup == HInit /\ [][HNext]_vars


(***************************** cc_epoll.c **********************************)
\* a & b and a | b on unsigned integers
RECURSIVE BitAnd(_, _)
BitAnd(a, b) ==
    IF a = 0 \/ b = 0 THEN 0
    ELSE (a % 2) * (b % 2) + 2 * BitAnd(a \div 2, b \div 2)

BitOr(a, b) == a + b - BitAnd(a, b)

\* the user data registered with the descriptors of the event base
Datas == {"c1", "c2"}

\* the bits epoll_wait reports in ev->events
PlatformBits == {EPOLLIN, EPOLLPRI, EPOLLOUT, EPOLLERR, EPOLLHUP, EPOLLRDHUP}

RECURSIVE SetSum(_)
SetSum(S) == IF S = {} THEN 0 ELSE LET x == CHOOSE y \in S : TRUE IN x + SetSum(S \ {x})

\* the values ev->events takes: at least one bit
PlatformMasks == {SetSum(S) : S \in (SUBSET PlatformBits) \ {{}}}

\* what epoll_wait can store in ev_arr: at most nevent records, one for a descriptor
ReadyLists(nevent) ==
    {r \in UNION {[1..n -> [events : PlatformMasks, data : Datas]] :
                      n \in 1..Min(nevent, Cardinality(Datas))} :
        \A i, j \in DOMAIN r : i # j => r[i].data # r[j].data}

\* a slot of heap no event base has been made in
NoBase ==
    [state |-> "none", ep |-> -1, nevent |-> 0, cb |-> "NULL",
     closes |-> 0, event_frees |-> 0, frees |-> 0,
     opens |-> 0, event_allocs |-> 0, allocs |-> 0, slots |-> 0, fail |-> "none"]

\* no event_wait has been called
WaitIdle ==
    [pc |-> "idle", evb |-> 0, timeout |-> 0, sys |-> <<>>, ev_arr |-> <<>>, i |-> 0,
     log |-> <<>>, ret |-> 0, asked |-> <<>>]

\* faulty variant: peer close (EPOLLRDHUP) is not reported as READ
EventMaskNoRdhup(events) ==
    BitOr(BitOr(IF BitAnd(events, BitOr(EPOLLERR, EPOLLHUP)) # 0 THEN EVENT_ERR ELSE 0,
                IF BitAnd(events, EPOLLIN) # 0 THEN EVENT_READ ELSE 0),
          IF BitAnd(events, EPOLLOUT) # 0 THEN EVENT_WRITE ELSE 0)

\* event_wait: the mask built from ev->events for the callback
EventMask(events) ==
    LET e0 == 0
        e1 == IF BitAnd(events, BitOr(EPOLLERR, EPOLLHUP)) # 0 THEN BitOr(e0, EVENT_ERR) ELSE e0
        e2 == IF BitAnd(events, BitOr(EPOLLIN, EPOLLRDHUP)) # 0 THEN BitOr(e1, EVENT_READ) ELSE e1
        e3 == IF BitAnd(events, EPOLLOUT) # 0 THEN BitOr(e2, EVENT_WRITE) ELSE e2
    IN e3

\* faulty variant: a record whose mask comes out 0 is not dispatched
CallbackSkipEmpty(log, cb, data, events) ==
    IF cb = "NULL" \/ events = 0 THEN log ELSE Append(log, [data |-> data, events |-> events])

\* event_wait: if (evb->cb != NULL) evb->cb(ev->data.ptr, events); log keeps
\* the invocations
Callback(log, cb, data, events) ==
    IF cb = "NULL" THEN log ELSE Append(log, [data |-> data, events |-> events])

\* faulty variant: an indefinite wait that returns nothing is an ordinary timeout
WaitNoneZero(timeout) == 0

\* event_wait: the return value when epoll_wait returned 0
WaitNone(timeout) == IF timeout = -1 THEN -1 ELSE 0

\* faulty variant: an interrupted wait goes on for the time that is left
WaitAgainRemaining(timeout) == IF timeout > 0 THEN timeout - 1 ELSE timeout

\* event_wait: the timeout the loop hands epoll_wait after EINTR
WaitAgain(timeout) == timeout

\* event_wait(evb, timeout) is called and makes its first epoll_wait; asked
\* keeps the timeouts handed to epoll_wait
EventWaitCall(b, timeout) ==
    /\ ~aborted
    /\ wait.pc \in {"idle", "done"}
    /\ heap[b].state = "live"
    /\ wait' = [WaitIdle EXCEPT !.pc = "epoll_wait", !.evb = b, !.timeout = timeout,
                                !.asked = <<timeout>>]
    /\ UNCHANGED <<heap, aborted>>

\* epoll_wait returns the records r
EpollReady(r) ==
    /\ wait.pc = "epoll_wait"
    /\ wait' = [wait EXCEPT !.pc = "dispatch", !.sys = Append(@, Ok(Len(r))),
                            !.ev_arr = r, !.i = 1]
    /\ UNCHANGED <<heap, aborted>>

\* epoll_wait returns 0: event_wait returns
EpollNone ==
    /\ wait.pc = "epoll_wait"
    /\ wait' = [wait EXCEPT !.pc = "done", !.sys = Append(@, Ok(0)),
                            !.ret = WaitNone(wait.timeout)]
    /\ UNCHANGED <<heap, aborted>>

\* epoll_wait fails with errno e: on EINTR event_wait waits again, else returns -1
EpollFail(e) ==
    /\ wait.pc = "epoll_wait"
    /\ e = EINTR => Len(wait.sys) < MaxEintr
    /\ wait' = IF e = EINTR
               THEN [wait EXCEPT !.sys = Append(@, Fail(e)),
                                 !.asked = Append(@, WaitAgain(wait.timeout))]
               ELSE [wait EXCEPT !.pc = "done", !.sys = Append(@, Fail(e)), !.ret = -1]
    /\ UNCHANGED <<heap, aborted>>

\* one pass of the loop over the records: translate the mask, call back
EventDispatch ==
    /\ wait.pc = "dispatch"
    /\ wait.i <= Len(wait.ev_arr)
    /\ LET ev == wait.ev_arr[wait.i] IN
       wait' = [wait EXCEPT !.i = @ + 1,
                            !.log = Callback(@, heap[wait.evb].cb, ev.data, EventMask(ev.events))]
    /\ UNCHANGED <<heap, aborted>>

\* the loop is over: return nreturned
EventWaitReturn ==
    /\ wait.pc = "dispatch"
    /\ wait.i > Len(wait.ev_arr)
    /\ wait' = [wait EXCEPT !.pc = "done", !.ret = Len(wait.ev_arr)]
    /\ UNCHANGED <<heap, aborted>>

\* no stream is in use
IoIdle ==
    /\ conn = ConnInit
    /\ rbuf = MbufInit
    /\ wbuf = MbufInit
    /\ handler = [pre_read |-> "NULL", post_read |-> "NULL", pre_write |-> "NULL",
                  post_write |-> "NULL"]
    /\ sock = SockInit
    /\ ep = [rd |-> FALSE, wr |-> FALSE]
    /\ hist = <<>>
    /\ aborted = FALSE

\* a step of the event base leaves the stream and the stream pool alone
EvOnly == UNCHANGED <<ioVars, pool, options>>

\* an event base as event_base_create(nevent, cb) returns it
LiveBase(b, nevent, cb) ==
    [NoBase EXCEPT !.state = "live", !.ep = b + 2, !.nevent = nevent, !.cb = cb,
                   !.opens = 1, !.event_allocs = 1, !.allocs = 1, !.slots = nevent]

(************* event_wait, called again and again on one event base *********)
EInit ==
    /\ IoIdle
    /\ pc = "event"
    /\ \E nevent \in 1..MaxNevent, cb \in {"NULL", "cb"} :
          heap = [b \in 1..MaxBases |-> IF b = 1 THEN LiveBase(b, nevent, cb) ELSE NoBase]
    /\ wait = WaitIdle
    /\ pool = <<>> /\ options = <<>>

ENext ==
    \/ \E timeout \in {-1, 1} : EventWaitCall(1, timeout) /\ EvOnly
    \/ wait.pc = "epoll_wait" /\ \E r \in ReadyLists(heap[1].nevent) : EpollReady(r) /\ EvOnly
    \/ EpollNone /\ EvOnly
    \/ \E e \in {EINTR, EBADF, EINVAL} : EpollFail(e) /\ EvOnly
    \/ EventDispatch /\ EvOnly
    \/ EventWaitReturn /\ EvOnly

SpecEvent == EInit /\ [][ENext]_vars

(****** event_wait on a base of one slot, the kernel always answering ******)
TInit ==
    /\ IoIdle
    /\ pc = "event"
    /\ heap = [b \in 1..MaxBases |-> IF b = 1 THEN LiveBase(b, 1, "cb") ELSE NoBase]
    /\ wait = WaitIdle
    /\ pool = <<>> /\ options = <<>>

\* epoll_wait comes back: with records, with none, or with an error
EpollWaitOutcome ==
    \/ wait.pc = "epoll_wait" /\ \E r \in ReadyLists(1) : EpollReady(r) /\ EvOnly
    \/ EpollNone /\ EvOnly
    \/ \E e \in {EINTR, EBADF, EINVAL} : EpollFail(e) /\ EvOnly

TNext ==
    \/ \E timeout \in {-1, 1, 2} : EventWaitCall(1, timeout) /\ EvOnly
    \/ EpollWaitOutcome
    \/ EventDispatch /\ EvOnly
    \/ EventWaitReturn /\ EvOnly

\* every epoll_wait comes back, at most MaxEintr times per call with EINTR,
\* and event_wait runs on
SpecWaitFair ==
    /\ TInit /\ [][TNext]_vars
    /\ WF_vars(EpollWaitOutcome) /\ WF_vars(EventDispatch /\ EvOnly)
    /\ WF_vars(EventWaitReturn /\ EvOnly)

(************ event bases created and destroyed in any order ****************)
\* faulty variant: the event array is not freed when cc_alloc fails
CreatedArrayKept(b, nevent, cb, fail) ==
    IF fail = "epoll_create" THEN [NoBase EXCEPT !.state = "failed", !.fail = fail]
    ELSE IF fail = "cc_calloc"
    THEN [NoBase EXCEPT !.state = "failed", !.fail = fail, !.opens = 1, !.closes = 1]
    ELSE IF fail = "cc_alloc"
    THEN [NoBase EXCEPT !.state = "failed", !.fail = fail, !.opens = 1,
                        !.event_allocs = 1, !.closes = 1]
    ELSE LiveBase(b, nevent, cb)

\* event_base_create(nevent, cb): what the call leaves in slot b, with the
\* handles it opened and closed and the memory it took and freed
Created(b, nevent, cb, fail) ==
    IF fail = "epoll_create" THEN [NoBase EXCEPT !.state = "failed", !.fail = fail]
    ELSE IF fail = "cc_calloc"
    THEN [NoBase EXCEPT !.state = "failed", !.fail = fail, !.opens = 1, !.closes = 1]
    ELSE IF fail = "cc_alloc"
    THEN [NoBase EXCEPT !.state = "failed", !.fail = fail, !.opens = 1,
                        !.event_allocs = 1, !.closes = 1, !.event_frees = 1]
    ELSE LiveBase(b, nevent, cb)

\* event_base_create(nevent, cb) makes the event base b; fail names the
\* call that fails, if one does
EventBaseCreate(b, nevent, cb, fail) ==
    /\ ~aborted
    /\ heap[b].state = "none"
    /\ \A b2 \in 1..(b - 1) : heap[b2].state # "none"
    /\ heap' = [heap EXCEPT ![b] = Created(b, nevent, cb, fail)]
    /\ UNCHANGED <<wait, aborted>>

\* ASSERT(evb->ep > 0) fails where ASSERT panics
Abort0 ==
    /\ aborted' = TRUE
    /\ UNCHANGED heap

\* event_base_destroy past its NULL test, on the memory of event base b:
\* free the array, close the handle (close(-1) closes nothing), free the base
DestroyBase(h, b) ==
    [h EXCEPT ![b] = [@ EXCEPT !.state = "freed",
                               !.event_frees = @ + 1,
                               !.closes = IF h[b].ep > 0 THEN @ + 1 ELSE @,
                               !.ep = -1,
                               !.frees = @ + 1]]

\* event_base_destroy(evb), evb being NULL (p = 0) or a pointer the caller
\* got from event_base_create.  The function cannot clear the caller's
\* pointer, so it can be handed a base it has freed: it then reads freed
\* memory, which still holds ep == -1 (ASSERT fails, or is compiled out
\* and the frees are repeated) or has been given to a newer event base.
EventBaseDestroy(p) ==
    /\ ~aborted
    /\ \/ /\ p = 0
          /\ UNCHANGED <<heap, aborted>>
       \/ /\ p # 0 /\ heap[p].state = "live"
          /\ heap' = DestroyBase(heap, p)
          /\ UNCHANGED aborted
       \/ /\ p # 0 /\ heap[p].state = "freed" /\ heap[p].frees < MaxDestroy
          /\ \/ Abort0
             \/ /\ heap' = DestroyBase(heap, p)
                /\ UNCHANGED aborted
             \/ \E b2 \in (p + 1)..MaxBases :
                   /\ heap[b2].state = "live"
                   /\ heap' = DestroyBase(heap, b2)
                   /\ UNCHANGED aborted
    /\ UNCHANGED wait

LInit ==
    /\ IoIdle
    /\ pc = "life"
    /\ heap = [b \in 1..MaxBases |-> NoBase]
    /\ wait = WaitIdle
    /\ pool = <<>> /\ options = <<>>

LNext ==
    \/ \E b \in 1..MaxBases, nevent \in 1..MaxNevent, cb \in {"NULL", "cb"},
          fail \in {"none", "epoll_create", "cc_calloc", "cc_alloc"} :
          EventBaseCreate(b, nevent, cb, fail) /\ EvOnly
    \/ \E p \in 0..MaxBases : EventBaseDestroy(p) /\ EvOnly

SpecEvbLife == LInit /\ [][LNext]_vars

(************************* the stream pool **********************************)
\* a uint32_t counter is kept as the representative of its value modulo 2^32
\* that is nearest 0: -1 stands for UINT32_MAX
U32Lt(a, b) == IF a < 0 THEN (b < 0 /\ a < b) ELSE (b < 0 \/ a < b)

\* FREEPOOL_CREATE(pool, max): an empty free list with capacity max
FreepoolCreate(max) == [nmax |-> max, nfree |-> 0, nused |-> 0, freeq |-> <<>>]

\* FREEPOOL_BORROW(var, pool, next, create): the head of the free list if
\* there is one, else, below the cap, what create() returns (fresh, 0 for
\* NULL); made tells whether create() was called
FreepoolBorrow(p, fresh) ==
    IF p.freeq # <<>>
    THEN [p |-> [p EXCEPT !.freeq = Tail(@), !.nfree = @ - 1, !.nused = @ + 1],
          ret |-> Head(p.freeq), made |-> FALSE]
    ELSE IF p.nmax = 0 \/ U32Lt(p.nused, p.nmax)
    THEN [p |-> IF fresh = 0 THEN p ELSE [p EXCEPT !.nused = @ + 1],
          ret |-> fresh, made |-> TRUE]
    ELSE [p |-> p, ret |-> 0, made |-> FALSE]

\* faulty variant: elm is queued at the tail of the free list
FreepoolReturnTail(p, elm) ==
    [p EXCEPT !.freeq = @ \o <<elm>>, !.nused = @ - 1, !.nfree = @ + 1]

\* FREEPOOL_RETURN(pool, elm, next): elm becomes the head of the free list
FreepoolReturn(p, elm) ==
    [p EXCEPT !.freeq = <<elm>> \o @, !.nused = @ - 1, !.nfree = @ + 1]

\* FREEPOOL_DESTROY(var, tvar, pool, next, destroy): the free list is
\* drained, destroy being called on each element, and the counters are reset
FreepoolDestroy(p) == [p EXCEPT !.freeq = <<>>, !.nfree = 0, !.nused = 0]

\* a stream never allocated.  mem is the state of its memory, bound tells
\* that the caller has given it a handler and a channel (data left NULL),
\* rbuf and wbuf are "null", "held" (borrowed from the buffer pool) or
\* "returned" (given back with mbuf_return)
NoStream == [mem |-> "none", bound |-> FALSE, rbuf |-> "null", wbuf |-> "null"]

\* the buffers borrowed with mbuf_borrow and not given back with mbuf_return
MbufOut(objs) ==
    Cardinality({id \in 1..MaxStreams : objs[id].rbuf = "held"})
        + Cardinality({id \in 1..MaxStreams : objs[id].wbuf = "held"})

\* faulty variant: the first buffer is not given back when the second cannot
\* be borrowed
StreamCreateLeak(objs, id, fail) ==
    IF fail = "cc_alloc" THEN [objs |-> objs, ret |-> 0]
    ELSE IF fail = "rbuf"
    THEN [objs |-> [objs EXCEPT ![id].mem = "freed"], ret |-> 0]
    ELSE IF fail = "wbuf"
    THEN [objs |-> [objs EXCEPT ![id].mem = "freed", ![id].rbuf = "held"],
          ret |-> 0]
    ELSE [objs |-> [objs EXCEPT ![id].mem = "live", ![id].rbuf = "held",
                                ![id].wbuf = "held"],
          ret |-> id]

\* stream_create(): allocate the stream id and borrow its two buffers; fail
\* names the allocation that fails, if one does.  The handler, the channel
\* and data of the new stream are not initialized.
StreamCreate(objs, id, fail) ==
    IF fail = "cc_alloc" THEN [objs |-> objs, ret |-> 0]
    ELSE IF fail = "rbuf"
    THEN [objs |-> [objs EXCEPT ![id].mem = "freed"], ret |-> 0]
    ELSE IF fail = "wbuf"
    THEN [objs |-> [objs EXCEPT ![id].mem = "freed", ![id].rbuf = "returned"],
          ret |-> 0]
    ELSE [objs |-> [objs EXCEPT ![id].mem = "live", ![id].rbuf = "held",
                                ![id].wbuf = "held"],
          ret |-> id]

\* stream_destroy(stream), the stream having its handler: close the
\* channel, return the buffers, free the stream
StreamDestroy(objs, id) ==
    [objs EXCEPT ![id].mem = "freed", ![id].rbuf = "returned",
                 ![id].wbuf = "returned"]

\* faulty variant: the buffers are given back before the channel is closed
StreamDestroyCallsCloseLast(id) ==
    << [fn |-> "mbuf_return(rbuf)", id |-> id],
       [fn |-> "mbuf_return(wbuf)", id |-> id],
       [fn |-> "close", id |-> id], [fn |-> "cc_free", id |-> id] >>

\* the calls stream_destroy(stream) makes, in order
StreamDestroyCalls(id) ==
    << [fn |-> "close", id |-> id], [fn |-> "mbuf_return(rbuf)", id |-> id],
       [fn |-> "mbuf_return(wbuf)", id |-> id], [fn |-> "cc_free", id |-> id] >>

\* the streams the callers hold: allocated, not freed, not in the free list
Held(id) ==
    /\ pool.objs[id].mem = "live"
    /\ \A i \in 1..Len(pool.p.freeq) : pool.p.freeq[i] # id

\* what the last pool call was given and returned: the pool and the streams
\* as they were before it, and the calls it made to close, mbuf_return and
\* cc_free
PoolCall(op, ret, calls) ==
    [op |-> op, ret |-> ret, pre |-> pool.p, was |-> pool.objs, calls |-> calls]

\* stream_borrow()
StreamBorrow(fail) ==
    LET free == {i \in 1..MaxStreams : pool.objs[i].mem = "none"}
        id == IF free = {} THEN 0 ELSE CHOOSE i \in free : \A j \in free : i <= j
        made == StreamCreate(pool.objs, id, fail)
        r == FreepoolBorrow(pool.p, made.ret)
    IN
    /\ ~aborted
    /\ IF r.made THEN id # 0 ELSE fail = "none"
    /\ pool' = [pool EXCEPT !.p = r.p,
                            !.objs = IF r.made THEN made.objs ELSE @,
                            !.last = PoolCall("stream_borrow", r.ret, <<>>)]
    /\ UNCHANGED aborted

\* the caller gives the stream it holds a handler and a channel
StreamBind(id) ==
    /\ ~aborted
    /\ Held(id) /\ ~pool.objs[id].bound
    /\ pool' = [pool EXCEPT !.objs[id].bound = TRUE, !.last = PoolCall("bind", id, <<>>)]
    /\ UNCHANGED aborted

\* faulty variant: stream_return gives the buffers back to the buffer pool
StreamReturnedGiveBack(st) == [st EXCEPT !.rbuf = "returned", !.wbuf = "returned"]

\* what stream_return(stream) does to the stream itself: nothing, no field
\* is reset and the buffers stay with the stream
StreamReturned(st) == st

\* stream_return(stream)
StreamReturn(id) ==
    /\ ~aborted
    /\ Held(id)
    /\ pool' = [pool EXCEPT !.p = FreepoolReturn(@, id),
                            !.objs[id] = StreamReturned(@),
                            !.last = PoolCall("stream_return", id, <<>>)]
    /\ UNCHANGED aborted

RECURSIVE DestroyCalls(_)
\* the calls made by stream_destroy on each stream of the free list q, from
\* its head
DestroyCalls(q) ==
    IF q = <<>> THEN <<>> ELSE StreamDestroyCalls(Head(q)) \o DestroyCalls(Tail(q))

\* stream_pool_destroy(): stream_destroy on every free stream.  On a stream
\* the caller never gave a handler, stream_destroy reads an uninitialized
\* pointer: the process stops there.
StreamPoolDestroy ==
    LET q == pool.p.freeq
        ok == \A i \in 1..Len(q) : pool.objs[q[i]].bound
    IN
    /\ ~aborted
    /\ IF ok
       THEN /\ pool' = [pool EXCEPT
                   !.p = FreepoolDestroy(@),
                   !.objs = [id \in 1..MaxStreams |->
                                IF \E i \in 1..Len(q) : q[i] = id
                                THEN StreamDestroy(pool.objs, id)[id] ELSE pool.objs[id]],
                   !.last = PoolCall("stream_pool_destroy", 0, DestroyCalls(q))]
            /\ UNCHANGED aborted
       ELSE /\ aborted' = TRUE
            /\ UNCHANGED pool

\* a step of the pool leaves the stream in use and the event bases alone
PoolOnly == UNCHANGED <<ioVars, heap, wait, options>>

\* stream_pool_create(max) has been called
PInit ==
    /\ IoIdle
    /\ pc = "pool"
    /\ heap = <<>> /\ wait = <<>> /\ options = <<>>
    /\ \E max \in 1..MaxPool :
          pool = [p |-> FreepoolCreate(max),
                  objs |-> [id \in 1..MaxStreams |-> NoStream],
                  last |-> [op |-> "stream_pool_create", ret |-> 0,
                            pre |-> FreepoolCreate(max),
                            was |-> [id \in 1..MaxStreams |-> NoStream],
                            calls |-> <<>>]]

PNext ==
    \/ \E fail \in {"none", "cc_alloc", "rbuf", "wbuf"} : StreamBorrow(fail) /\ PoolOnly
    \/ \E id \in 1..MaxStreams : StreamBind(id) /\ PoolOnly
    \/ \E id \in 1..MaxStreams : StreamReturn(id) /\ PoolOnly
    \/ StreamPoolDestroy /\ PoolOnly

SpecPool == PInit /\ [][PNext]_vars

(******************* cc_nio.c: the vector variants *************************)
\* one pass of the for (;;) loop of conn_recvv on the result o of cc_readv
ConnRecvvIter(c, nbyte, o) ==
    IF o.n > 0
    THEN [conn |-> [c EXCEPT !.recv_ready = IF o.n < nbyte THEN FALSE ELSE @,
                             !.recv_nbyte = @ + o.n],
          ret |-> o.n, done |-> TRUE]
    ELSE IF o.n = 0
    THEN [conn |-> [c EXCEPT !.recv_ready = FALSE], ret |-> 0, done |-> TRUE]
    ELSE IF o.errno = EINTR
    THEN [conn |-> c, ret |-> 0, done |-> FALSE]
    ELSE IF o.errno = EAGAIN \/ o.errno = EWOULDBLOCK
    THEN [conn |-> [c EXCEPT !.recv_ready = FALSE], ret |-> CC_EAGAIN, done |-> TRUE]
    ELSE [conn |-> [c EXCEPT !.recv_ready = FALSE, !.err = o.errno],
          ret |-> CC_ERROR, done |-> TRUE]

\* conn_recvv(conn, bufv, nbyte): the loop over the results outs of
\* successive cc_readv calls
RECURSIVE ConnRecvv(_, _, _)
ConnRecvv(c, nbyte, outs) ==
    LET it == ConnRecvvIter(c, nbyte, Head(outs)) IN
    IF it.done \/ Len(outs) = 1
    THEN [conn |-> it.conn, ret |-> it.ret, nsys |-> 1]
    ELSE LET r == ConnRecvv(it.conn, nbyte, Tail(outs)) IN [r EXCEPT !.nsys = @ + 1]

\* faulty variant: a short writev is not counted in send_nbyte
ConnSendvIterShortUncounted(c, nbyte, o) ==
    IF o.n > 0
    THEN [conn |-> [c EXCEPT !.send_ready = IF o.n < nbyte THEN FALSE ELSE @,
                             !.send_nbyte = IF o.n < nbyte THEN @ ELSE @ + o.n],
          ret |-> o.n, done |-> TRUE]
    ELSE IF o.n = 0
    THEN [conn |-> [c EXCEPT !.send_ready = FALSE], ret |-> 0, done |-> TRUE]
    ELSE IF o.errno = EINTR
    THEN [conn |-> c, ret |-> 0, done |-> FALSE]
    ELSE IF o.errno = EAGAIN \/ o.errno = EWOULDBLOCK
    THEN [conn |-> [c EXCEPT !.send_ready = FALSE], ret |-> CC_EAGAIN, done |-> TRUE]
    ELSE [conn |-> [c EXCEPT !.send_ready = FALSE, !.err = o.errno],
          ret |-> CC_ERROR, done |-> TRUE]

\* one pass of the for (;;) loop of conn_sendv on the result o of cc_writev
ConnSendvIter(c, nbyte, o) ==
    IF o.n > 0
    THEN [conn |-> [c EXCEPT !.send_ready = IF o.n < nbyte THEN FALSE ELSE @,
                             !.send_nbyte = @ + o.n],
          ret |-> o.n, done |-> TRUE]
    ELSE IF o.n = 0
    THEN [conn |-> [c EXCEPT !.send_ready = FALSE], ret |-> 0, done |-> TRUE]
    ELSE IF o.errno = EINTR
    THEN [conn |-> c, ret |-> 0, done |-> FALSE]
    ELSE IF o.errno = EAGAIN \/ o.errno = EWOULDBLOCK
    THEN [conn |-> [c EXCEPT !.send_ready = FALSE], ret |-> CC_EAGAIN, done |-> TRUE]
    ELSE [conn |-> [c EXCEPT !.send_ready = FALSE, !.err = o.errno],
          ret |-> CC_ERROR, done |-> TRUE]

\* conn_sendv(conn, bufv, nbyte): the loop over the results outs of
\* successive cc_writev calls
RECURSIVE ConnSendv(_, _, _)
ConnSendv(c, nbyte, outs) ==
    LET it == ConnSendvIter(c, nbyte, Head(outs)) IN
    IF it.done \/ Len(outs) = 1
    THEN [conn |-> it.conn, ret |-> it.ret, nsys |-> 1]
    ELSE LET r == ConnSendv(it.conn, nbyte, Tail(outs)) IN [r EXCEPT !.nsys = @ + 1]

\* what one read or write syscall can yield when asked for nbyte bytes
SysResults(nbyte) ==
    {Ok(k) : k \in 0..nbyte}
        \cup {Fail(e) : e \in {EAGAIN, EWOULDBLOCK, ECONNRESET, ETIMEDOUT}}

\* the connections the two variants are called on: ready in both directions
VecConns ==
    [recv_ready : {TRUE}, send_ready : {TRUE}, recv_nbyte : 0..1, send_nbyte : 0..1,
     state : {CONN_CONNECT, CONN_CONNECTED}, err : {0}]

\* the scalar and the vector variant are given the same connection and the
\* same syscall results
VecRecv(nbyte, outs) ==
    /\ hist' = << [op |-> "conn_recvv", nbyte |-> nbyte, outs |-> outs,
                   scalar |-> ConnRecv(conn, nbyte, outs),
                   vector |-> ConnRecvv(conn, nbyte, outs)] >>
    /\ UNCHANGED <<conn, rbuf, wbuf, handler, sock, ep, aborted, pc>>

VecSend(nbyte, outs) ==
    /\ hist' = << [op |-> "conn_sendv", nbyte |-> nbyte, outs |-> outs,
                   scalar |-> ConnSend(conn, nbyte, outs),
                   vector |-> ConnSendv(conn, nbyte, outs)] >>
    /\ UNCHANGED <<conn, rbuf, wbuf, handler, sock, ep, aborted, pc>>

VInit ==
    /\ conn \in VecConns
    /\ rbuf = MbufInit /\ wbuf = MbufInit
    /\ handler = [pre_read |-> "NULL", post_read |-> "NULL", pre_write |-> "NULL",
                  post_write |-> "NULL"]
    /\ sock = SockInit
    /\ ep = [rd |-> FALSE, wr |-> FALSE]
    /\ hist = <<>>
    /\ aborted = FALSE
    /\ pc = "vec"
    /\ heap = <<>> /\ wait = <<>> /\ pool = <<>> /\ options = <<>>

VNext ==
    \/ \E nbyte \in 1..MaxNbyte, j \in 0..MaxEintr : \E o \in SysResults(nbyte) :
          VecRecv(nbyte, Outcomes(j, o)) /\ IoOnly
    \/ \E nbyte \in 1..MaxNbyte, j \in 0..MaxEintr : \E o \in SysResults(nbyte) :
          VecSend(nbyte, Outcomes(j, o)) /\ IoOnly

SpecVec == VInit /\ [][VNext]_vars

(*********** cc_nio.c: the four transfer calls in any sequence *************)
\* the record of a transfer call: the function, what it was asked and
\* returned, the connection before it, and the sums of the positive values
\* the receive calls and the send calls have returned so far
Transfer(fn, nbyte, r, rsum, ssum) ==
    [op |-> fn, nbyte |-> nbyte, ret |-> r.ret, pre |-> conn, rsum |-> rsum,
     ssum |-> ssum]

\* conn_recv or conn_recvv, called with recv_ready set
CountRecv(fn, nbyte, outs) ==
    LET r == IF fn = "conn_recv" THEN ConnRecv(conn, nbyte, outs)
             ELSE ConnRecvv(conn, nbyte, outs)
    IN
    /\ conn.recv_ready
    /\ conn.recv_nbyte + nbyte <= MaxPeerBytes
    /\ conn' = r.conn
    /\ hist' = << Transfer(fn, nbyte, r,
                            Last.rsum + (IF r.ret > 0 THEN r.ret ELSE 0), Last.ssum) >>
    /\ UNCHANGED <<rbuf, wbuf, handler, sock, ep, aborted, pc>>

\* conn_send or conn_sendv, called with send_ready set
CountSend(fn, nbyte, outs) ==
    LET r == IF fn = "conn_send" THEN ConnSend(conn, nbyte, outs)
             ELSE ConnSendv(conn, nbyte, outs)
    IN
    /\ conn.send_ready
    /\ conn.send_nbyte + nbyte <= MaxAppBytes
    /\ conn' = r.conn
    /\ hist' = << Transfer(fn, nbyte, r, Last.rsum,
                            Last.ssum + (IF r.ret > 0 THEN r.ret ELSE 0)) >>
    /\ UNCHANGED <<rbuf, wbuf, handler, sock, ep, aborted, pc>>

\* the callback sets recv_ready and send_ready again
CountNotify ==
    /\ ~conn.recv_ready \/ ~conn.send_ready
    /\ conn' = [conn EXCEPT !.recv_ready = TRUE, !.send_ready = TRUE]
    /\ UNCHANGED <<rbuf, wbuf, handler, sock, ep, hist, aborted, pc>>

CInit ==
    /\ conn = [ConnInit EXCEPT !.recv_ready = TRUE, !.send_ready = TRUE]
    /\ rbuf = MbufInit /\ wbuf = MbufInit
    /\ handler = [pre_read |-> "NULL", post_read |-> "NULL", pre_write |-> "NULL",
                  post_write |-> "NULL"]
    /\ sock = SockInit
    /\ ep = [rd |-> FALSE, wr |-> FALSE]
    /\ hist = << [op |-> "none", nbyte |-> 0, ret |-> 0, pre |-> ConnInit,
                  rsum |-> 0, ssum |-> 0] >>
    /\ aborted = FALSE
    /\ pc = "count"
    /\ heap = <<>> /\ wait = <<>> /\ pool = <<>> /\ options = <<>>

CNext ==
    \/ \E fn \in {"conn_recv", "conn_recvv"}, nbyte \in 1..MaxNbyte, j \in 0..MaxEintr :
          \E o \in SysResults(nbyte) : CountRecv(fn, nbyte, Outcomes(j, o)) /\ IoOnly
    \/ \E fn \in {"conn_send", "conn_sendv"}, nbyte \in 1..MaxNbyte, j \in 0..MaxEintr :
          \E o \in SysResults(nbyte) : CountSend(fn, nbyte, Outcomes(j, o)) /\ IoOnly
    \/ CountNotify /\ IoOnly

SpecCount == CInit /\ [][CNext]_vars

(***************************** cc_option.c *********************************)
\* a line is a sequence of characters; isspace(c)
IsSpace(c) == c \in {" ", "\n", "\t"}

\* the characters of [A-Za-z0-9_] the lines are written with
NameChars == {"a", "b", "s", "u", "x", "_", "0", "1", "3", "6"}

\* _allowed_in_name(c)
AllowedInName(c) == c \in NameChars

\* line[i], the characters counted from 0 and followed by the terminating NUL
At(line, i) == IF i < Len(line) THEN line[i + 1] ELSE "NUL"

\* the name loop of option_parse from position p: where it stops, and
\* whether it stopped on a character that no name may hold
RECURSIVE NameScan(_, _)
NameScan(line, p) ==
    IF At(line, p) # ":" /\ p < Len(line) /\ p <= OPTNAME_MAXLEN
    THEN IF AllowedInName(At(line, p)) THEN NameScan(line, p + 1)
         ELSE [p |-> p, bad |-> TRUE]
    ELSE [p |-> p, bad |-> FALSE]

\* while (isspace(*p) && p < q) p++
RECURSIVE SkipLeft(_, _, _)
SkipLeft(line, p, q) ==
    IF IsSpace(At(line, p)) /\ p < q THEN SkipLeft(line, p + 1, q) ELSE p

\* while (isspace(*q) && q >= p) q--
RECURSIVE SkipRight(_, _, _)
SkipRight(line, p, q) ==
    IF IsSpace(At(line, q)) /\ q >= p THEN SkipRight(line, p, q - 1) ELSE q

\* faulty variant: only a blank line or a line that begins with # is a comment
CommentLineBlank(line) ==
    \/ \A i \in 1..Len(line) : IsSpace(line[i])
    \/ line[1] = "#"

\* the test option_parse makes first: an empty line or a comment line
CommentLine(line) ==
    Len(line) = 0 \/ IsSpace(At(line, 0)) \/ At(line, 0) = "#"

\* what option_parse gives for a line it does not parse
NoOption(status) == [status |-> status, name |-> <<>>, val |-> <<>>]

\* faulty variant: the value is copied without its right end being trimmed
ParseValueNoRtrim(line, colon) ==
    LET p == SkipLeft(line, colon + 1, Len(line) - 1)
        q == Len(line) - 1
    IN
    IF p > q THEN NoOption(CC_ERROR)
    ELSE IF q - p + 1 > OPTVAL_MAXLEN THEN NoOption(CC_ERROR)
    ELSE [status |-> CC_OK, name |-> SubSeq(line, 1, colon),
          val |-> SubSeq(line, p + 1, q + 1)]

\* the value part of option_parse, the ':' being at position colon: both
\* ends are trimmed and the range [p, q] is copied
ParseValue(line, colon) ==
    LET p == SkipLeft(line, colon + 1, Len(line) - 1)
        q == SkipRight(line, p, Len(line) - 1)
    IN
    IF p > q THEN NoOption(CC_ERROR)
    ELSE IF q - p + 1 > OPTVAL_MAXLEN THEN NoOption(CC_ERROR)
    ELSE [status |-> CC_OK, name |-> SubSeq(line, 1, colon),
          val |-> SubSeq(line, p + 1, q + 1)]

\* option_parse(line, name, val)
OptionParse(line) ==
    IF CommentLine(line) THEN NoOption(CC_EEMPTY)
    ELSE IF Len(line) > OPTLINE_MAXLEN THEN NoOption(CC_ERROR)
    ELSE LET n == NameScan(line, 0) IN
         IF n.bad THEN NoOption(CC_ERROR)
         ELSE IF n.p = Len(line) THEN NoOption(CC_ERROR)
         ELSE IF n.p > OPTNAME_MAXLEN THEN NoOption(CC_ERROR)
         ELSE ParseValue(line, n.p)

\* the characters the parsed lines are drawn from: one of a name, the
\* colon, a blank, and # (which no name may hold)
ParseChars == {"a", ":", " ", "#"}

\* the lines handed to option_parse
Lines == UNION {[1..n -> ParseChars] : n \in 0..MaxLine}

\* a step of the option loader leaves everything else alone
OptOnly == UNCHANGED <<ioVars, aborted, heap, wait, pool>>

\* option_parse is called on the line
DoOptionParse ==
    /\ options.op = "line"
    /\ options' = [op |-> "option_parse", line |-> options.line,
                   res |-> OptionParse(options.line)]

OInit ==
    /\ IoIdle
    /\ pc = "option_parse"
    /\ heap = <<>> /\ wait = <<>> /\ pool = <<>>
    /\ \E line \in Lines :
          options = [op |-> "line", line |-> line, res |-> NoOption(CC_OK)]

ONext == DoOptionParse /\ OptOnly

SpecParse == OInit /\ [][ONext]_vars

(****************** cc_option.c: loading the option table ******************)
\* _option_parse_bool(opt, val_str)
OptionParseBool(opt, text) ==
    IF text = <<"y", "e", "s">>
    THEN [opt |-> [opt EXCEPT !.set = TRUE, !.vbool = TRUE], status |-> CC_OK]
    ELSE IF text = <<"n", "o">>
    THEN [opt |-> [opt EXCEPT !.set = TRUE, !.vbool = FALSE], status |-> CC_OK]
    ELSE [opt |-> opt, status |-> CC_ERROR]

\* the value of c as a digit, 99 if it is none
DigitOf(c) ==
    CASE c = "0" -> 0 [] c = "1" -> 1 [] c = "2" -> 2 [] c = "3" -> 3
      [] c = "4" -> 4 [] c = "5" -> 5 [] c = "6" -> 6 [] c = "7" -> 7
      [] c = "8" -> 8 [] c = "9" -> 9 [] c = "a" -> 10 [] c = "b" -> 11
      [] OTHER -> 99

\* the digits of text from position i (counted from 1) in the given base:
\* the value so far is acc; end is the number of characters consumed
RECURSIVE Digits(_, _, _, _)
Digits(text, i, base, acc) ==
    IF i <= Len(text) /\ DigitOf(text[i]) < base
    THEN Digits(text, i + 1, base, acc * base + DigitOf(text[i]))
    ELSE [val |-> acc, end |-> i - 1]

\* the digits read, the value clamped to UINTMAX_MAX where it overflows
Clamped(r) == [val |-> IF r.val > UINTMAX_MAX THEN UINTMAX_MAX ELSE r.val, end |-> r.end]

\* strtoumax(val_str, &endptr, 0) on an unsigned literal: 0x starts a
\* hexadecimal number, 0 an octal one; without a digit nothing is consumed;
\* a number over UINTMAX_MAX yields UINTMAX_MAX
Strtoumax(text) ==
    IF Len(text) >= 3 /\ text[1] = "0" /\ text[2] = "x" /\ DigitOf(text[3]) < 16
    THEN Clamped(Digits(text, 3, 16, 0))
    ELSE IF Len(text) >= 1 /\ text[1] = "0" THEN Clamped(Digits(text, 1, 8, 0))
    ELSE Clamped(Digits(text, 1, 10, 0))

\* faulty variant: the option is marked set before the value is looked at
OptionParseUintSetFirst(opt, text) ==
    LET r == Strtoumax(text) IN
    IF r.val = UINTMAX_MAX THEN [opt |-> [opt EXCEPT !.set = TRUE], status |-> CC_ERROR]
    ELSE IF r.end < Len(text) THEN [opt |-> [opt EXCEPT !.set = TRUE], status |-> CC_ERROR]
    ELSE [opt |-> [opt EXCEPT !.set = TRUE, !.vuint = r.val], status |-> CC_OK]

\* _option_parse_uint(opt, val_str)
OptionParseUint(opt, text) ==
    LET r == Strtoumax(text) IN
    IF r.val = UINTMAX_MAX THEN [opt |-> opt, status |-> CC_ERROR]
    ELSE IF r.end < Len(text) THEN [opt |-> opt, status |-> CC_ERROR]
    ELSE [opt |-> [opt EXCEPT !.set = TRUE, !.vuint = r.val], status |-> CC_OK]

\* _option_parse_str(opt, val_str): the option keeps the pointer it is given
OptionParseStr(opt, ptr) ==
    [opt |-> [opt EXCEPT !.set = IF ptr # "NULL" THEN TRUE ELSE @, !.vstr = ptr],
     status |-> CC_OK]

\* option_set(opt, val_str), val_str being the pointer ptr to the characters text
OptionSet(opt, ptr, text) ==
    IF opt.type = "OPTION_TYPE_BOOL" THEN OptionParseBool(opt, text)
    ELSE IF opt.type = "OPTION_TYPE_UINT" THEN OptionParseUint(opt, text)
    ELSE IF opt.type = "OPTION_TYPE_STR" THEN OptionParseStr(opt, ptr)
    ELSE [opt |-> opt, status |-> CC_ERROR]

\* an option as declared: not set
Declared(name, type, default) ==
    [name |-> name, type |-> type, default |-> default, set |-> FALSE,
     vbool |-> FALSE, vuint |-> 0, vstr |-> "NULL"]

\* the table of the option test: a boolean, a string and an unsigned integer
Setting ==
    << Declared(<<"b">>, "OPTION_TYPE_BOOL", <<"y", "e", "s">>),
       Declared(<<"s">>, "OPTION_TYPE_STR", <<"f", "o", "o">>),
       Declared(<<"u">>, "OPTION_TYPE_UINT", <<"1">>) >>

\* option_load_default(options, nopt) from option i on
RECURSIVE LoadDefault(_, _)
LoadDefault(table, i) ==
    IF i > Len(table) THEN [table |-> table, status |-> CC_OK]
    ELSE LET r == OptionSet(table[i], "default_val_str", table[i].default) IN
         IF r.status # CC_OK THEN [table |-> table, status |-> CC_ERROR]
         ELSE LoadDefault([table EXCEPT ![i] = r.opt], i + 1)

\* the first option of the table that has the name, 0 if none has
Match(table, name) ==
    IF \E i \in 1..Len(table) : table[i].name = name
    THEN CHOOSE i \in 1..Len(table) :
             table[i].name = name /\ \A j \in 1..(i - 1) : table[j].name # name
    ELSE 0

\* the while loop of option_load_file over the lines fgets reads, valbuf
\* being the buffer of the function that option_parse fills
RECURSIVE LoadFile(_, _, _)
LoadFile(table, lines, valbuf) ==
    IF lines = <<>> THEN [table |-> table, status |-> CC_OK, valbuf |-> valbuf]
    ELSE LET parsed == OptionParse(Head(lines)) IN
         IF parsed.status = CC_EEMPTY THEN LoadFile(table, Tail(lines), valbuf)
         ELSE IF parsed.status # CC_OK
         THEN [table |-> table, status |-> CC_ERROR, valbuf |-> valbuf]
         ELSE LET i == Match(table, parsed.name) IN
              IF i = 0
              THEN [table |-> table, status |-> CC_ERROR, valbuf |-> parsed.val]
              ELSE LET r == OptionSet(table[i], "valbuf", parsed.val) IN
                   IF r.status # CC_OK
                   THEN [table |-> table, status |-> CC_ERROR, valbuf |-> parsed.val]
                   ELSE LoadFile([table EXCEPT ![i] = r.opt], Tail(lines), parsed.val)

\* the lines option files are made of, one of them longer than OPTLINE_MAXLEN
FileLines ==
    { <<"b", ":", "n", "o", "\n">>, <<"s", ":", "b", "a", "r", "\n">>,
      <<"u", ":", "3", "\n">>, <<"u", ":", "0", "1", "0", "\n">>,
      <<"#", "\n">>, <<"x", ":", "1", "\n">>, <<"b", ":", "x", "\n">>,
      <<"u", ":", "3", " ", " ", " ", "b", ":", "n", "o", "\n">> }

\* what the calls fgets(linebuf, OPTLINE_MAXLEN + 1, fp) read of one line of
\* the file: at most OPTLINE_MAXLEN characters each, up to the newline
RECURSIVE FgetsLine(_)
FgetsLine(line) ==
    IF Len(line) <= OPTLINE_MAXLEN THEN <<line>>
    ELSE <<SubSeq(line, 1, OPTLINE_MAXLEN)>>
             \o FgetsLine(SubSeq(line, OPTLINE_MAXLEN + 1, Len(line)))

\* what the calls of fgets read of the file, until it returns NULL
RECURSIVE Fgets(_)
Fgets(file) == IF file = <<>> THEN <<>> ELSE FgetsLine(Head(file)) \o Fgets(Tail(file))

Files == UNION {[1..n -> FileLines] : n \in 0..MaxFileLines}

\* option_load_default on the declared table
OptionLoadDefault ==
    LET r == LoadDefault(options.table, 1) IN
    /\ options.op = "declared"
    /\ options' = [options EXCEPT !.op = "option_load_default",
                                  !.table = r.table, !.status = r.status]

\* option_load_file on the file; valbuf is gone when it returns
OptionLoadFile ==
    LET r == LoadFile(options.table, Fgets(options.file), <<>>) IN
    /\ options.op = "option_load_default"
    /\ options.status = CC_OK
    /\ options' = [options EXCEPT !.op = "option_load_file", !.table = r.table,
                                  !.status = r.status, !.valbuf = r.valbuf]

\* what reading the string through the pointer vstr can yield: the default
\* string, or, through a pointer into the buffer of a function that has
\* returned, the characters last left there or anything else
StrRead(opt, valbuf) ==
    IF opt.vstr = "default_val_str" THEN {opt.default}
    ELSE IF opt.vstr = "valbuf" THEN {valbuf, <<"?">>}
    ELSE {<<>>}

\* the caller reads the string option
ReadString ==
    /\ options.op = "option_load_file"
    /\ \E text \in StrRead(options.table[2], options.valbuf) :
          options' = [options EXCEPT !.op = "read", !.seen = text]

LdInit ==
    /\ IoIdle
    /\ pc = "option_load"
    /\ heap = <<>> /\ wait = <<>> /\ pool = <<>>
    /\ \E file \in Files :
          options = [op |-> "declared", table |-> Setting, file |-> file,
                     valbuf |-> <<>>, status |-> CC_OK, seen |-> <<>>]

LdNext ==
    \/ OptionLoadDefault /\ OptOnly
    \/ OptionLoadFile /\ OptOnly
    \/ ReadString /\ OptOnly

SpecOption == LdInit /\ [][LdNext]_vars

(*************** cc_option.c: option_set, again and again ******************)
\* the value strings option_set is given: booleans and near misses, decimal,
\* octal and hexadecimal numbers, numbers followed by something else, and
\* numbers at and over UINTMAX_MAX
Values ==
    { <<>>, <<"y", "e", "s">>, <<"n", "o">>, <<"y">>, <<"o", "n">>, <<"y", "e", "s", "s">>,
      <<"0">>, <<"9">>, <<"0", "1", "0">>, <<"0", "x", "a">>, <<"0", "x">>, <<"0", "9">>,
      <<"9", "x">>, <<"6", "2">>, <<"6", "3">>, <<"6", "4">>, <<"9", "9", "9">>,
      <<"0", "x", "b", "b">> }

\* the types of the options: the three of the switch and one it does not know
OptionTypes == {"OPTION_TYPE_BOOL", "OPTION_TYPE_UINT", "OPTION_TYPE_STR", "unknown"}

\* option_set(opt, val_str) on the option, val_str holding text
DoOptionSet(text) ==
    LET r == OptionSet(options.opt, "val_str", text) IN
    /\ options.n < MaxSets
    /\ options' = [op |-> "option_set", opt |-> r.opt, text |-> text,
                   status |-> r.status, pre |-> options.opt, n |-> options.n + 1]

SInit ==
    /\ IoIdle
    /\ pc = "option_set"
    /\ heap = <<>> /\ wait = <<>> /\ pool = <<>>
    /\ \E type \in OptionTypes :
          options = [op |-> "declared", opt |-> Declared(<<"o">>, type, <<>>),
                     text |-> <<>>, status |-> CC_OK,
                     pre |-> Declared(<<"o">>, type, <<>>), n |-> 0]

SNext == \E text \in Values : DoOptionSet(text) /\ OptOnly

SpecSet == SInit /\ [][SNext]_vars

(******************************* properties ************************************)
\* the result of the read/write that ended the loop of conn_recv/conn_send
FinalOut(L) == L.sys[Len(L.sys)]

IsEagain(o) == o.n < 0 /\ (o.errno = EAGAIN \/ o.errno = EWOULDBLOCK)

IsFatal(o) == o.n < 0 /\ o.errno \notin {EINTR, EAGAIN, EWOULDBLOCK}

\* the call invoked the named hook
Invoked(L, name) == \E i \in 1..Len(L.hooks) : L.hooks[i].hook = name

\* the buffer as the pre hook of the call left it
AfterPreRead(L) == Hook(handler.pre_read, L.pre.rbuf)

AfterPreWrite(L) == Hook(handler.pre_write, L.pre.wbuf)

\* C1: conn_recv (conn_send) called with recv_ready (send_ready) set for
\* n > 0 bytes returns with the flag cleared when the read (write) moved
\* 0 < k < n bytes or failed with EAGAIN/EWOULDBLOCK, and with the flag still
\* set when it moved exactly n bytes.
C1_ReadinessBookkeeping ==
    LET L == Last IN
    /\ (L.op = "stream_read" /\ L.called /\ L.pre.conn.recv_ready /\ L.req > 0) =>
          /\ ((0 < FinalOut(L).n /\ FinalOut(L).n < L.req) \/ IsEagain(FinalOut(L)))
                => ~conn.recv_ready
          /\ FinalOut(L).n = L.req => conn.recv_ready
    /\ (L.op = "stream_write" /\ L.called /\ L.pre.conn.send_ready /\ L.req > 0) =>
          /\ ((0 < FinalOut(L).n /\ FinalOut(L).n < L.req) \/ IsEagain(FinalOut(L)))
                => ~conn.send_ready
          /\ FinalOut(L).n = L.req => conn.send_ready

\* a write that found send_ready set and moved fewer bytes than asked
C1_Witness ==
    /\ Last.op = "stream_write" /\ Last.called /\ Last.pre.conn.send_ready
    /\ 0 < Last.ret /\ Last.ret < Last.req
    /\ ~conn.send_ready

\* C2: in the reactor (the callback sets recv_ready on READ, the consumer
\* reads while stream_read returns ERETRY) recv_ready is clear only when the
\* last read attempt left the socket without unread bytes: bytes queued in
\* the socket while recv_ready is clear have a notification on its way.
C2_NoStrandedByte ==
    /\ ~conn.recv_ready => (sock.rx = 0 \/ ep.rd)
    /\ (Last.called /\ ~conn.recv_ready) => sock.rx = 0

\* bytes that arrived after a read drained the socket, with their notification
C2_Witness ==
    /\ ~conn.recv_ready /\ conn.recv_nbyte > 0
    /\ sock.rx > 0 /\ ep.rd
    /\ pc = "idle"

\* C3: when the read inside conn_recv returns 0, conn_recv returns 0, sets
\* state to EOF and clears recv_ready; that stream_read returns ERDHUP, does
\* not move rbuf.wpos and does not invoke post_read.
C3_EofOnZeroRead ==
    LET L == Last IN
    (L.op = "stream_read" /\ L.called /\ FinalOut(L).n = 0) =>
        /\ L.ret = 0
        /\ conn.state = CONN_EOF
        /\ ~conn.recv_ready
        /\ L.status = CC_ERDHUP
        /\ rbuf.wpos = AfterPreRead(L).wpos
        /\ ~Invoked(L, "post_read")

\* a read that met end of file on a connection not yet marked EOF
C3_Witness ==
    /\ Last.op = "stream_read" /\ Last.called /\ FinalOut(Last).n = 0
    /\ Last.pre.conn.state = CONN_CONNECTED /\ Last.pre.conn.recv_ready
    /\ Last.status = CC_ERDHUP

\* C4, as the specification states it: once state is EOF, every later conn_recv returns 0 and
\* makes no read on the socket.
C4_EofNoSyscall ==
    LET L == Last IN
    (L.op = "stream_read" /\ L.called /\ L.pre.conn.recv_ready
        /\ L.pre.conn.state = CONN_EOF) =>
        /\ L.ret = 0
        /\ L.sys = <<>>

\* C4, amended: once state is EOF it stays EOF through every later
\* conn_recv; that conn_recv still reads the socket, and returns 0 when the
\* read returns 0, CC_EAGAIN or CC_ERROR when it fails.
C4_EofStaysEof ==
    LET L == Last IN
    (L.op = "stream_read" /\ L.called /\ L.pre.conn.state = CONN_EOF) =>
        /\ Len(L.sys) >= 1
        /\ conn.state = CONN_EOF
        /\ FinalOut(L).n = 0 => L.ret = 0
        /\ IsEagain(FinalOut(L)) => L.ret = CC_EAGAIN
        /\ IsFatal(FinalOut(L)) => L.ret = CC_ERROR

\* a conn_recv on a connection at EOF, recv_ready set again by a notification
C4_Witness ==
    /\ Last.op = "stream_read" /\ Last.called
    /\ Last.pre.conn.state = CONN_EOF /\ Last.pre.conn.recv_ready
    /\ Len(Last.sys) >= 1

\* C5: the peer sends bytes and closes before the reactor runs; after one
\* event_wait, stream_read for more than was sent returns OK with the bytes
\* appended to rbuf, and the next stream_read returns ERDHUP with no
\* assertion failing.
C5_PeerHangup ==
    /\ ~aborted
    /\ pc \in {"read1", "read2"} =>
          /\ hist[1].status = CC_OK
          /\ hist[1].ret = hist[1].pre.sock.rx
          /\ hist[1].post.rbuf.wpos = Hook(handler.pre_read, hist[1].pre.rbuf).wpos + hist[1].ret
    /\ pc = "read2" =>
          /\ hist[2].status = CC_ERDHUP
          /\ ~hist[2].asserted

\* C6: j >= 0 EINTR failures before the read (write) that completes change
\* nothing: return value, status, connection, buffers and hook invocations
\* are those of the same call with j = 0.  The call never ends on an EINTR
\* and an EINTR is never stored in conn->err.
C6_EintrTransparent ==
    LET L == Last
        s0 == [conn |-> L.pre.conn, rbuf |-> L.pre.rbuf, wbuf |-> L.pre.wbuf,
               handler |-> handler]
    IN
    /\ L.called => /\ \A i \in 1..(Len(L.sys) - 1) : L.sys[i] = Fail(EINTR)
                   /\ FinalOut(L) # Fail(EINTR)
                   /\ conn.err # EINTR
    /\ (L.op = "stream_read" /\ L.called) =>
          LET base == StreamRead(s0, L.nbyte, <<FinalOut(L)>>) IN
          /\ L.ret = base.ret /\ L.status = base.status /\ L.hooks = base.hooks
          /\ conn = base.conn /\ rbuf = base.rbuf
    /\ (L.op = "stream_write" /\ L.called) =>
          LET base == StreamWrite(s0, L.nbyte, <<FinalOut(L)>>) IN
          /\ L.ret = base.ret /\ L.status = base.status /\ L.hooks = base.hooks
          /\ conn = base.conn /\ wbuf = base.wbuf

\* a read interrupted before it moved bytes
C6_Witness ==
    /\ Last.op = "stream_read" /\ Last.called
    /\ Len(Last.sys) >= 2 /\ Last.sys[1] = Fail(EINTR)
    /\ Last.ret > 0

\* C7: when the read/write fails with an errno other than EINTR, EAGAIN and
\* EWOULDBLOCK, conn_recv/conn_send clears the readiness flag, stores the
\* errno in conn->err and returns CC_ERROR; stream_read/stream_write return
\* CC_ERROR, do not move rbuf.wpos / wbuf.rpos and invoke no post hook.
C7_FatalError ==
    LET L == Last IN
    /\ (L.op = "stream_read" /\ L.called /\ IsFatal(FinalOut(L))) =>
          /\ ~conn.recv_ready
          /\ conn.err = FinalOut(L).errno
          /\ L.ret = CC_ERROR /\ L.status = CC_ERROR
          /\ rbuf.wpos = AfterPreRead(L).wpos
          /\ ~Invoked(L, "post_read")
    /\ (L.op = "stream_write" /\ L.called /\ IsFatal(FinalOut(L))) =>
          /\ ~conn.send_ready
          /\ conn.err = FinalOut(L).errno
          /\ L.ret = CC_ERROR /\ L.status = CC_ERROR
          /\ wbuf.rpos = AfterPreWrite(L).rpos
          /\ ~Invoked(L, "post_write")

\* a write that failed on a broken connection with data pending
C7_Witness ==
    /\ Last.op = "stream_write" /\ Last.called /\ Last.pre.conn.send_ready
    /\ IsFatal(FinalOut(Last))
    /\ conn.err = ETIMEDOUT /\ Last.pre.conn.err = 0

\* C8: when the read/write fails with EAGAIN or EWOULDBLOCK, conn_recv /
\* conn_send clears the readiness flag and returns CC_EAGAIN; conn->err,
\* conn->state, recv_nbyte and send_nbyte are unchanged.
C8_Eagain ==
    LET L == Last IN
    (L.called /\ IsEagain(FinalOut(L))) =>
        /\ L.op = "stream_read" => ~conn.recv_ready
        /\ L.op = "stream_write" => ~conn.send_ready
        /\ L.ret = CC_EAGAIN
        /\ conn.err = L.pre.conn.err
        /\ conn.state = L.pre.conn.state
        /\ conn.recv_nbyte = L.pre.conn.recv_nbyte
        /\ conn.send_nbyte = L.pre.conn.send_nbyte

\* a read on a ready connection whose socket had been drained
C8_Witness ==
    /\ Last.op = "stream_read" /\ Last.called /\ Last.pre.conn.recv_ready
    /\ IsEagain(FinalOut(Last))
    /\ Last.pre.conn.recv_nbyte > 0

\* C9: stream_read(s, n) with at least n writable bytes in rbuf maps the
\* result k of conn_recv: CC_EAGAIN -> OK, CC_ERROR -> ERROR, 0 -> ERDHUP,
\* n -> ERETRY, 0 < k < n -> OK, and returns nothing else.
C9_ReadStatusMap ==
    LET L == Last IN
    (L.op = "stream_read" /\ ~RbufShort(AfterPreRead(L), L.nbyte)) =>
        /\ L.called
        /\ L.ret = CC_EAGAIN => L.status = CC_OK
        /\ L.ret = CC_ERROR => L.status = CC_ERROR
        /\ L.ret = 0 => L.status = CC_ERDHUP
        /\ L.ret = L.nbyte => L.status = CC_ERETRY
        /\ (0 < L.ret /\ L.ret < L.nbyte) => L.status = CC_OK
        /\ L.ret \in {CC_EAGAIN, CC_ERROR} \cup (0..L.nbyte)
        /\ L.status \in {CC_OK, CC_ERROR, CC_ERDHUP, CC_ERETRY}

\* a read that filled the whole request
C9_Witness ==
    /\ Last.op = "stream_read" /\ Last.called
    /\ Last.ret = Last.nbyte /\ Last.status = CC_ERETRY

\* C10: stream_read(s, n) returns ENOMEM whenever rbuf, after pre_read, has
\* fewer than n writable bytes; it then attempts no receive, leaves
\* rbuf.wpos, recv_ready, recv_nbyte and the state alone and does not
\* invoke post_read.
C10_Enomem ==
    LET L == Last IN
    (L.op = "stream_read" /\ MbufWsize(AfterPreRead(L)) < L.nbyte) =>
        /\ L.status = CC_ENOMEM
        /\ ~L.called /\ L.sys = <<>>
        /\ sock = L.pre.sock
        /\ rbuf.wpos = AfterPreRead(L).wpos
        /\ conn = L.pre.conn
        /\ ~Invoked(L, "post_read")

\* a read refused with data waiting in the socket and recv_ready set
C10_Witness ==
    /\ Last.op = "stream_read" /\ Last.status = CC_ENOMEM
    /\ Last.pre.conn.recv_ready /\ sock.rx > 0
    /\ MbufWsize(rbuf) > 0

\* C11: with hooks that do not move wpos, rbuf.wpos is its starting position
\* plus the sum of the positive byte counts conn_recv has returned (the sum
\* conn_recv keeps in recv_nbyte); a stream_read that ends in ENOMEM, ERROR,
\* ERDHUP or an OK mapped from EAGAIN adds 0; the readable size of rbuf is
\* that sum minus what the handler consumed by advancing rpos.
C11_BufferAccounting ==
    LET L == Last
        k == IF L.ret > 0 THEN L.ret ELSE 0
    IN
    /\ handler.pre_read # "lshift" =>
          /\ rbuf.wpos = MbufInit.wpos + conn.recv_nbyte
          /\ MbufRsize(rbuf) = conn.recv_nbyte - (rbuf.rpos - MbufInit.rpos)
    /\ L.op = "stream_read" =>
          /\ conn.recv_nbyte = L.pre.conn.recv_nbyte + k
          /\ rbuf.wpos = AfterPreRead(L).wpos + k
          /\ (\/ L.status \in {CC_ENOMEM, CC_ERROR, CC_ERDHUP}
              \/ (L.status = CC_OK /\ L.ret = CC_EAGAIN))
                => rbuf.wpos = AfterPreRead(L).wpos

\* a second read with data, after the handler has consumed some of the first
C11_Witness ==
    /\ Last.op = "stream_read" /\ Last.ret > 0 /\ ~Last.asserted
    /\ Last.pre.conn.recv_nbyte > 0 /\ rbuf.rpos > 0
    /\ handler.pre_read # "lshift"

\* C12: stream_write on a stream whose wbuf, after pre_write, has nothing
\* readable returns EEMPTY without calling conn_send or touching the socket:
\* send_ready, send_nbyte, conn->err and wbuf.rpos are unchanged and
\* post_write is not invoked.
C12_EmptyWrite ==
    LET L == Last IN
    (L.op = "stream_write" /\ MbufRsize(AfterPreWrite(L)) = 0) =>
        /\ L.status = CC_EEMPTY
        /\ ~L.called /\ L.sys = <<>>
        /\ sock = L.pre.sock
        /\ conn.send_ready = L.pre.conn.send_ready
        /\ conn.send_nbyte = L.pre.conn.send_nbyte
        /\ conn.err = L.pre.conn.err
        /\ wbuf.rpos = L.pre.wbuf.rpos
        /\ ~Invoked(L, "post_write")

\* a write on a ready connection whose wbuf has been sent out whole
C12_Witness ==
    /\ Last.op = "stream_write" /\ Last.status = CC_EEMPTY
    /\ conn.send_ready /\ conn.send_nbyte > 0
    /\ wbuf.rpos = wbuf.wpos

\* C13: stream_write with content = readable size of wbuf > 0 maps the
\* result k of conn_send: CC_EAGAIN -> EAGAIN, CC_ERROR -> ERROR,
\* k < content -> ERETRY, k = content -> OK; wbuf.rpos advances by max(k, 0),
\* post_write(s, k) is invoked exactly when k > 0, and OK leaves wbuf empty.
C13_WriteStatusMap ==
    LET L == Last
        content == MbufRsize(AfterPreWrite(L))
        k == IF L.ret > 0 THEN L.ret ELSE 0
    IN
    (L.op = "stream_write" /\ content > 0) =>
        /\ L.called
        /\ L.ret \in {CC_EAGAIN, CC_ERROR} \cup (0..content)
        /\ L.ret = CC_EAGAIN => L.status = CC_EAGAIN
        /\ L.ret = CC_ERROR => L.status = CC_ERROR
        /\ (0 <= L.ret /\ L.ret < content) => L.status = CC_ERETRY
        /\ L.ret = content => L.status = CC_OK
        /\ wbuf.rpos = AfterPreWrite(L).rpos + k
        /\ handler.post_write # "NULL" =>
              (Invoked(L, "post_write") <=> L.ret > 0)
        /\ Invoked(L, "post_write") => L.hooks[Len(L.hooks)].arg = L.ret
        /\ L.status = CC_OK => wbuf.rpos = wbuf.wpos

\* a write that sent all of wbuf and called post_write
C13_Witness ==
    /\ Last.op = "stream_write" /\ Last.status = CC_OK
    /\ Last.ret = Last.req /\ Last.ret > 1
    /\ Invoked(Last, "post_write")

C15_PartialSend ==
    LET L == Last
        content == MbufRsize(AfterPreWrite(L))
    IN
    (L.op = "stream_write" /\ L.called /\ 0 < FinalOut(L).n
        /\ FinalOut(L).n < content) =>
        /\ L.status = CC_ERETRY
        /\ L.ret = FinalOut(L).n
        /\ wbuf.rpos = AfterPreWrite(L).rpos + FinalOut(L).n
        /\ MbufRsize(wbuf) = content - FinalOut(L).n
        /\ ~conn.send_ready

\* more bytes pending than the send buffer has room for
C15_Witness ==
    /\ Last.op = "stream_write" /\ Last.status = CC_ERETRY
    /\ Last.ret > 1 /\ Last.ret < Last.req
    /\ MbufRsize(wbuf) = Last.req - Last.ret

\* bit b (a power of two) is set in x
HasBit(x, b) == (x \div b) % 2 = 1

\* the result of the epoll_wait that ended the wait
FinalWait == wait.sys[Len(wait.sys)]

\* the event base of the wait has a callback
HasCb == wait.pc # "idle" /\ heap[wait.evb].cb # "NULL"

\* C16: the mask event_wait passes to the callback for a readiness record has
\* EVENT_ERR iff the record has EPOLLERR or EPOLLHUP, EVENT_READ iff it has
\* EPOLLIN or EPOLLRDHUP, EVENT_WRITE iff it has EPOLLOUT, and nothing else;
\* the three masks are 0x0000ff, 0x00ff00, 0xff0000, pairwise disjoint.
C16_EventMask ==
    /\ EVENT_READ = 255 /\ EVENT_WRITE = 255 * 256 /\ EVENT_ERR = 255 * 256 * 256
    /\ BitAnd(EVENT_READ, EVENT_WRITE) = 0
    /\ BitAnd(EVENT_READ, EVENT_ERR) = 0
    /\ BitAnd(EVENT_WRITE, EVENT_ERR) = 0
    /\ \A k \in 1..Len(wait.log) :
          LET x == wait.ev_arr[k].events
              err == HasBit(x, EPOLLERR) \/ HasBit(x, EPOLLHUP)
              rd == HasBit(x, EPOLLIN) \/ HasBit(x, EPOLLRDHUP)
              wr == HasBit(x, EPOLLOUT)
          IN
          HasCb =>
              wait.log[k].events = (IF err THEN EVENT_ERR ELSE 0)
                                   + (IF rd THEN EVENT_READ ELSE 0)
                                   + (IF wr THEN EVENT_WRITE ELSE 0)

\* a peer close alone dispatched as READ, then an error on a writable descriptor
C16_Witness ==
    /\ wait.pc = "done" /\ Len(wait.log) = 2
    /\ wait.ev_arr[1].events = EPOLLRDHUP /\ wait.log[1].events = EVENT_READ
    /\ wait.ev_arr[2].events = EPOLLOUT + EPOLLHUP + EPOLLPRI
    /\ wait.log[2].events = EVENT_WRITE + EVENT_ERR

\* C17: event_wait(evb, timeout) returns the number of records dispatched
\* when epoll_wait returns some; 0 when epoll_wait returns 0 and timeout is
\* not -1; -1 when epoll_wait returns 0 and timeout is -1; -1 when
\* epoll_wait fails with an errno other than EINTR; on EINTR it waits again
\* and does not return.
C17_WaitReturn ==
    /\ wait.pc \in {"epoll_wait", "dispatch"} =>
          \A i \in 1..Len(wait.sys) :
              wait.sys[i] = Fail(EINTR) \/ (i = Len(wait.sys) /\ wait.sys[i].n > 0)
    /\ wait.pc = "done" =>
          /\ \A i \in 1..(Len(wait.sys) - 1) : wait.sys[i] = Fail(EINTR)
          /\ FinalWait # Fail(EINTR)
          /\ FinalWait.n > 0 =>
                /\ wait.ret = FinalWait.n
                /\ wait.i = FinalWait.n + 1
                /\ HasCb => Len(wait.log) = wait.ret
          /\ (FinalWait.n = 0 /\ wait.timeout # -1) => wait.ret = 0
          /\ (FinalWait.n = 0 /\ wait.timeout = -1) => wait.ret = -1
          /\ FinalWait.n < 0 => wait.ret = -1

\* an indefinite wait, interrupted once, then returning with nothing ready
C17_Witness ==
    /\ wait.pc = "done" /\ wait.timeout = -1
    /\ wait.sys = <<Fail(EINTR), Ok(0)>>
    /\ wait.ret = -1

\* C18: within one event_wait the callback is invoked once for each record
\* epoll_wait returned, with the record's user data, in the order of the
\* records, all before event_wait returns; it is not invoked when the wait
\* times out or fails.
C18_DispatchOrder ==
    HasCb =>
        /\ wait.pc = "epoll_wait" => wait.log = <<>>
        /\ wait.pc = "dispatch" => Len(wait.log) = wait.i - 1
        /\ Len(wait.log) <= Len(wait.ev_arr)
        /\ \A k \in 1..Len(wait.log) : wait.log[k].data = wait.ev_arr[k].data
        /\ (wait.pc = "done" /\ FinalWait.n > 0) =>
              /\ Len(wait.ev_arr) = FinalWait.n
              /\ Len(wait.log) = FinalWait.n
        /\ (wait.pc = "done" /\ FinalWait.n <= 0) => wait.log = <<>>

\* two records dispatched, in the order epoll_wait gave them
C18_Witness ==
    /\ wait.pc = "done" /\ wait.ret = 2
    /\ wait.ev_arr[1].data = "c2" /\ wait.ev_arr[2].data = "c1"
    /\ wait.log[1].data = "c2" /\ wait.log[2].data = "c1"
    /\ wait.ev_arr[1].events = EPOLLPRI

\* C19: over any sequence of event_base_create and event_base_destroy calls,
\* a repeated destroy of the same base included, the kernel handle of each
\* event base is closed exactly once and its array and the base itself are
\* freed exactly once.
C19_DestroyOnce ==
    \A b \in 1..MaxBases :
        /\ heap[b].closes <= 1 /\ heap[b].event_frees <= 1 /\ heap[b].frees <= 1
        /\ heap[b].state = "freed" =>
              heap[b].closes = 1 /\ heap[b].event_frees = 1 /\ heap[b].frees = 1

\* the streams allocated and not freed: created minus destroyed
LiveStreams == Cardinality({id \in 1..MaxStreams : pool.objs[id].mem = "live"})

\* the last stream_borrow found the free list empty and the pool at its cap
BorrowAtCap ==
    /\ pool.last.op = "stream_borrow"
    /\ pool.last.pre.freeq = <<>>
    /\ ~U32Lt(pool.last.pre.nfree + pool.last.pre.nused, pool.p.nmax)

\* C20: for a pool created with max > 0,
\* after any interleaving of stream_borrow, stream_return and
\* stream_pool_destroy, nfree + nused <= max and nfree + nused is the number
\* of streams created minus the number destroyed; stream_borrow returns NULL
\* when the free list is empty and the cap would be crossed.
C20_PoolConservation ==
    /\ 0 <= pool.p.nfree /\ 0 <= pool.p.nused
    /\ pool.p.nfree + pool.p.nused <= pool.p.nmax
    /\ pool.p.nfree + pool.p.nused = LiveStreams
    /\ BorrowAtCap => pool.last.ret = 0

\* C21: stream_return(X) leaves X at the head of the free list, above the
\* streams returned before it; a stream_borrow that finds the free list
\* non-empty yields its head, the stream returned last and not borrowed
\* again, and creates nothing; a stream is created only when the free list
\* is empty.
C21_LifoReuse ==
    /\ pool.last.op = "stream_return" =>
          /\ pool.p.freeq # <<>>
          /\ Head(pool.p.freeq) = pool.last.ret
          /\ Tail(pool.p.freeq) = pool.last.pre.freeq
    /\ (pool.last.op = "stream_borrow" /\ pool.last.pre.freeq # <<>>) =>
          /\ pool.last.ret = Head(pool.last.pre.freeq)
          /\ pool.p.freeq = Tail(pool.last.pre.freeq)
          /\ pool.objs = pool.last.was
    /\ (pool.last.op = "stream_borrow" /\ pool.objs # pool.last.was) =>
          pool.last.pre.freeq = <<>>

\* two streams were returned one after the other and the borrow that
\* followed got the one returned last
C21_Witness ==
    /\ pool.last.op = "stream_borrow"
    /\ Len(pool.last.pre.freeq) >= 2
    /\ pool.last.ret = Head(pool.last.pre.freeq)
    /\ pool.last.ret # pool.last.pre.freeq[Len(pool.last.pre.freeq)]

\* the last stream_borrow found the free list empty and the pool below its
\* cap: it called stream_create
CreateCalled ==
    /\ pool.last.op = "stream_borrow"
    /\ pool.last.pre.freeq = <<>>
    /\ (pool.last.pre.nmax = 0 \/ U32Lt(pool.last.pre.nused, pool.last.pre.nmax))

\* the streams whose memory is allocated
LiveIn(objs) == {id \in 1..MaxStreams : objs[id].mem = "live"}

\* C22: stream_create either returns a stream that holds two borrowed
\* buffers, or returns NULL with nothing leaked: whichever of the three
\* allocations fails, the buffer already borrowed is given back and the
\* stream memory is freed, so that as many buffers are outstanding as before
\* the call.
C22_CreateNoLeak ==
    CreateCalled =>
        IF pool.last.ret # 0
        THEN /\ pool.last.was[pool.last.ret].mem = "none"
             /\ pool.objs[pool.last.ret].mem = "live"
             /\ pool.objs[pool.last.ret].rbuf = "held"
             /\ pool.objs[pool.last.ret].wbuf = "held"
             /\ MbufOut(pool.objs) = MbufOut(pool.last.was) + 2
        ELSE /\ MbufOut(pool.objs) = MbufOut(pool.last.was)
             /\ LiveIn(pool.objs) = LiveIn(pool.last.was)
             /\ \A id \in 1..MaxStreams :
                   pool.objs[id] # pool.last.was[id] =>
                       /\ pool.objs[id].mem = "freed"
                       /\ pool.objs[id].rbuf \in {"null", "returned"}
                       /\ pool.objs[id].wbuf = "null"

\* stream_create failed on its second buffer, having borrowed the first,
\* while another stream held its two buffers
C22_Witness ==
    /\ CreateCalled
    /\ pool.last.ret = 0
    /\ MbufOut(pool.last.was) = 2
    /\ \E id \in 1..MaxStreams :
          /\ pool.last.was[id].mem = "none"
          /\ pool.objs[id].mem = "freed"
          /\ pool.objs[id].rbuf = "returned"

\* the calls of the last operation that name the function fn and the stream id
CallsOf(fn, id) ==
    {i \in 1..Len(pool.last.calls) :
        pool.last.calls[i].fn = fn /\ pool.last.calls[i].id = id}

\* the last operation was a stream_pool_destroy that ran to its end
PoolDestroyed == pool.last.op = "stream_pool_destroy"

\* C23: stream_destroy(s), s having a handler and no data, calls the
\* handler's close once on the channel of s, then gives rbuf and wbuf back
\* to the buffer pool once each, then frees s; close comes before the
\* buffers are given back.
C23_DestroyOrder ==
    PoolDestroyed =>
        /\ Len(pool.last.calls) = 4 * Len(pool.last.pre.freeq)
        /\ \A k \in 1..Len(pool.last.pre.freeq) :
              LET id == pool.last.pre.freeq[k]
                  at == 4 * (k - 1)
              IN
              /\ pool.last.was[id].bound
              /\ pool.last.calls[at + 1] = [fn |-> "close", id |-> id]
              /\ pool.last.calls[at + 2] = [fn |-> "mbuf_return(rbuf)", id |-> id]
              /\ pool.last.calls[at + 3] = [fn |-> "mbuf_return(wbuf)", id |-> id]
              /\ pool.last.calls[at + 4] = [fn |-> "cc_free", id |-> id]
              /\ \A fn \in {"close", "mbuf_return(rbuf)", "mbuf_return(wbuf)", "cc_free"} :
                    Cardinality(CallsOf(fn, id)) = 1
              /\ pool.last.was[id].mem = "live"
              /\ pool.last.was[id].rbuf = "held" /\ pool.last.was[id].wbuf = "held"
              /\ pool.objs[id].mem = "freed"
              /\ pool.objs[id].rbuf = "returned" /\ pool.objs[id].wbuf = "returned"

\* stream_pool_destroy has destroyed two free streams
C23_Witness ==
    /\ PoolDestroyed
    /\ Len(pool.last.pre.freeq) = 2
    /\ Len(pool.last.calls) = 8
    /\ pool.objs[pool.last.pre.freeq[1]].mem = "freed"

\* the streams on the free list
FreeIds == {pool.p.freeq[i] : i \in 1..Len(pool.p.freeq)}

\* C24: every stream that is borrowed or on the free list owns two buffers:
\* stream_return puts the stream back without giving rbuf or wbuf to the
\* buffer pool, a stream got from stream_borrow has both, and only a
\* destroyed stream has given them back.
C24_BuffersKept ==
    /\ \A id \in 1..MaxStreams :
          /\ (pool.objs[id].mem = "live" \/ id \in FreeIds) =>
                pool.objs[id].rbuf = "held" /\ pool.objs[id].wbuf = "held"
          /\ (pool.objs[id].rbuf = "returned" \/ pool.objs[id].wbuf = "returned") =>
                pool.objs[id].mem = "freed"
    /\ pool.last.op = "stream_return" =>
          /\ pool.last.ret \in FreeIds
          /\ pool.objs[pool.last.ret].rbuf = "held"
          /\ pool.objs[pool.last.ret].wbuf = "held"
          /\ MbufOut(pool.objs) = MbufOut(pool.last.was)
    /\ (pool.last.op = "stream_borrow" /\ pool.last.ret # 0) =>
          /\ pool.objs[pool.last.ret].rbuf = "held"
          /\ pool.objs[pool.last.ret].wbuf = "held"

\* a stream that went through stream_return was borrowed again
C24_Witness ==
    /\ pool.last.op = "stream_borrow"
    /\ pool.last.pre.freeq # <<>>
    /\ pool.last.ret = Head(pool.last.pre.freeq)
    /\ pool.objs[pool.last.ret].rbuf = "held"
    /\ pool.objs[pool.last.ret].wbuf = "held"

\* C25: a stream is reset when it is returned to the pool: after
\* stream_return(s), and on the stream_borrow that yields s again, the
\* handler and the channel of s carry nothing over from the use before.
C25_ResetOnReturn ==
    /\ pool.last.op = "stream_return" => ~pool.objs[pool.last.ret].bound
    /\ (pool.last.op = "stream_borrow" /\ pool.last.pre.freeq # <<>>) =>
          ~pool.objs[pool.last.ret].bound

\* C30: where the callback sets recv_ready on a READ notification and calls
\* stream_read, calling it again as long as it returns ERETRY, the ASSERTs
\* of conn_recv (recv_ready set, nbyte > 0) hold at every call, and
\* recv_ready is still set whenever stream_read returns ERETRY.
C30_ReadAssertions ==
    /\ ~aborted
    /\ (Last.op = "stream_read" /\ Last.called) =>
          /\ Last.pre.conn.recv_ready
          /\ Last.req > 0
          /\ ~Last.asserted
    /\ (Last.op = "stream_read" /\ Last.status = CC_ERETRY) =>
          /\ Last.post.conn.recv_ready
          /\ conn.recv_ready
          /\ pc = "reading"

\* a stream_read that followed earlier reads returned ERETRY: the callback
\* is about to call it again
C30_Witness ==
    /\ Last.op = "stream_read"
    /\ Last.pre.conn.recv_nbyte > 0
    /\ Last.status = CC_ERETRY
    /\ conn.recv_ready
    /\ pc = "reading"

\* C29: for the same connection and the same results of the syscalls
\* (k > 0 short, k = nbyte, 0, EINTR, EAGAIN, another error), conn_recvv
\* and conn_sendv return what conn_recv and conn_send return and leave the
\* same readiness flag, byte counter, err and connection state.
C29_VectorSame ==
    hist # <<>> =>
        /\ Last.vector.ret = Last.scalar.ret
        /\ Last.vector.conn = Last.scalar.conn

\* option_parse has returned on the line
Parsed == options.op = "option_parse"

\* the line holds nothing but whitespace (an empty line included)
Blank(line) == \A i \in 1..Len(line) : line[i] \in {" ", "\n", "\t"}

\* C27: option_parse treats a line as a comment (returns EEMPTY and gives
\* no name and no value) if and only if the line is empty, holds only
\* whitespace, or begins with #; every other line is parsed as an option or
\* rejected with ERROR.
C27_CommentIff ==
    Parsed =>
        /\ options.res.status = CC_EEMPTY <=>
              (Blank(options.line) \/ options.line[1] = "#")
        /\ options.res.status \in {CC_EEMPTY, CC_OK, CC_ERROR}

\* C27, amended: option_parse treats a line as a comment if and only if
\* the line is empty or its first character is whitespace or #, whatever
\* follows; every other line is parsed as an option or rejected with ERROR.
C27_CommentFirstChar ==
    Parsed =>
        /\ options.res.status = CC_EEMPTY <=>
              \/ options.line = <<>>
              \/ options.line[1] \in {" ", "\n", "\t"}
              \/ options.line[1] = "#"
        /\ options.res.status = CC_EEMPTY =>
              options.res.name = <<>> /\ options.res.val = <<>>
        /\ options.res.status \in {CC_EEMPTY, CC_OK, CC_ERROR}

\* an indented option line was taken for a comment
C27_Witness ==
    /\ Parsed
    /\ options.line = <<" ", "a", ":", "a">>
    /\ options.res.status = CC_EEMPTY

\* the place of the first ':' of the line, 0 if it has none
FirstColon(line) ==
    IF \E i \in 1..Len(line) : line[i] = ":"
    THEN CHOOSE i \in 1..Len(line) :
             line[i] = ":" /\ \A j \in 1..(i - 1) : line[j] # ":"
    ELSE 0

\* what stands before the first ':'
NamePart(line) == SubSeq(line, 1, FirstColon(line) - 1)

\* what stands after the first ':', without the whitespace at its two ends
ValuePart(line) ==
    LET solid == {i \in (FirstColon(line) + 1)..Len(line) :
                     line[i] \notin {" ", "\n", "\t"}}
    IN IF solid = {} THEN <<>>
       ELSE SubSeq(line, CHOOSE i \in solid : \A j \in solid : i <= j,
                         CHOOSE i \in solid : \A j \in solid : i >= j)

\* every character is one of [A-Za-z0-9_]
InCharset(name) ==
    \A i \in 1..Len(name) :
        name[i] \in {"a", "b", "s", "u", "x", "_", "0", "1", "3", "6"}

\* what the claim says of a line: OK with the name and the trimmed value for
\* a legal line; ERROR without a ':', with a character outside the charset
\* before the ':', or with an empty value
AsClaimed(line, res) ==
    IF FirstColon(line) = 0 THEN res.status = CC_ERROR
    ELSE IF ~InCharset(NamePart(line)) THEN res.status = CC_ERROR
    ELSE IF ValuePart(line) = <<>> THEN res.status = CC_ERROR
    ELSE NamePart(line) # <<>> =>
            /\ res.status = CC_OK
            /\ res.name = NamePart(line)
            /\ res.val = ValuePart(line)

\* C28: for every legal option line name ':' WS* value WS* (name over
\* [A-Za-z0-9_], non-empty value), option_parse returns OK and gives the
\* name and the value without its leading and trailing whitespace, its
\* interior kept; a line with no ':', with a character outside the charset
\* before the ':', or with an empty value after trimming returns ERROR.
C28_ParseLine == Parsed => AsClaimed(options.line, options.res)

\* C28, amended: the same of every line that is not a comment (not empty,
\* its first character neither whitespace nor #) and that keeps within the
\* limits; a line longer than OPTLINE_MAXLEN, a name longer than
\* OPTNAME_MAXLEN and a trimmed value longer than OPTVAL_MAXLEN return ERROR;
\* an empty name is accepted.
C28_ParseLineWithinLimits ==
    (Parsed /\ options.line # <<>>
            /\ options.line[1] \notin {" ", "\n", "\t", "#"}) =>
        IF \/ Len(options.line) > OPTLINE_MAXLEN
           \/ FirstColon(options.line) = 0
           \/ ~InCharset(NamePart(options.line))
           \/ Len(NamePart(options.line)) > OPTNAME_MAXLEN
           \/ ValuePart(options.line) = <<>>
           \/ Len(ValuePart(options.line)) > OPTVAL_MAXLEN
        THEN options.res.status = CC_ERROR
        ELSE /\ options.res.status = CC_OK
             /\ options.res.name = NamePart(options.line)
             /\ options.res.val = ValuePart(options.line)

\* a line was parsed whose value has whitespace inside and around it
C28_Witness ==
    /\ Parsed
    /\ options.res.status = CC_OK
    /\ options.res.name # <<>>
    /\ \E i \in 1..Len(options.res.val) : options.res.val[i] = " "
    /\ Len(options.line) > Len(options.res.name) + 1 + Len(options.res.val)

\* the lines of the file that name the option, successfully parsed
NamedAt(name) ==
    {k \in 1..Len(options.file) :
        /\ OptionParse(options.file[k]).status = CC_OK
        /\ OptionParse(options.file[k]).name = name}

\* the option holds what the text says, the string being what a read yields
Holds(opt, text) ==
    IF opt.type = "OPTION_TYPE_BOOL" THEN opt.vbool = (text = <<"y", "e", "s">>)
    ELSE IF opt.type = "OPTION_TYPE_UINT" THEN opt.vuint = Strtoumax(text).val
    ELSE options.seen = text

\* C26: after option_load_default and a successful option_load_file, every
\* option named in the file holds the value given on its own line, be it a
\* bool, a uint or a string and whatever later lines contain, and every
\* option not named in the file holds its default value.
C26_LoadFile ==
    (options.op = "read" /\ options.status = CC_OK) =>
        \A i \in 1..Len(options.table) :
            LET opt == options.table[i] IN
            IF NamedAt(opt.name) = {} THEN Holds(opt, opt.default)
            ELSE \E k \in NamedAt(opt.name) :
                    Holds(opt, OptionParse(options.file[k]).val)

\* the entries of the hook log of the call that name the hook
HookCalls(L, name) == {i \in 1..Len(L.hooks) : L.hooks[i].hook = name}

\* the pre hook pre (present iff kind is not NULL) ran once, first, with the
\* argument nbyte, the cursor being where it was at entry (at); the post hook
\* post ran at most once, only after k > 0 bytes, with k, the cursor having
\* moved by k from where the pre hook left it (from) to where it ends (after)
HooksInOrder(L, pre, prekind, post, postkind, at, from, after) ==
    /\ Cardinality(HookCalls(L, pre)) = (IF prekind = "NULL" THEN 0 ELSE 1)
    /\ prekind # "NULL" =>
          L.hooks[1] = [hook |-> pre, arg |-> L.nbyte, pos |-> at]
    /\ Cardinality(HookCalls(L, post)) =
          (IF postkind # "NULL" /\ L.ret > 0 THEN 1 ELSE 0)
    /\ \A i \in HookCalls(L, post) :
          /\ i = Len(L.hooks)
          /\ L.hooks[i].arg = L.ret
          /\ L.hooks[i].pos = after
          /\ after = from + L.hooks[i].arg
    /\ Len(L.hooks) = Cardinality(HookCalls(L, pre)) + Cardinality(HookCalls(L, post))

\* C31: pre_read (pre_write), when present, is invoked exactly once per call,
\* before the capacity (content) check and before any I/O, also when the
\* call returns ENOMEM (EEMPTY); post_read (post_write), when present, is
\* invoked at most once, only when k > 0 bytes were transferred, with
\* argument k and after rbuf.wpos (wbuf.rpos) has been advanced by k.
C31_HookOrder ==
    /\ Last.op = "stream_read" =>
          HooksInOrder(Last, "pre_read", handler.pre_read, "post_read",
                       handler.post_read, Last.pre.rbuf.wpos,
                       AfterPreRead(Last).wpos, Last.post.rbuf.wpos)
    /\ Last.op = "stream_write" =>
          HooksInOrder(Last, "pre_write", handler.pre_write, "post_write",
                       handler.post_write, Last.pre.wbuf.rpos,
                       AfterPreWrite(Last).rpos, Last.post.wbuf.rpos)
    /\ (Last.op \in {"stream_read", "stream_write"} /\ ~Last.called) =>
          Last.status \in {CC_ENOMEM, CC_EEMPTY} /\ Last.sys = <<>>

\* stream_read found rbuf too small and returned ENOMEM, pre_read having run
C31_Witness ==
    /\ Last.op = "stream_read"
    /\ Last.status = CC_ENOMEM
    /\ handler.pre_read # "NULL"
    /\ Last.hooks = <<[hook |-> "pre_read", arg |-> Last.nbyte, pos |-> Last.pre.rbuf.wpos]>>

\* the cursors of the buffer are in order and inside it
CursorsOk(b) == 0 <= b.rpos /\ b.rpos <= b.wpos /\ b.wpos <= MbufCap

\* C33: after any sequence of stream_read and stream_write calls, rbuf and
\* wbuf satisfy rpos <= wpos <= end of buffer; stream_read never advances
\* rbuf.wpos past the capacity and stream_write never advances wbuf.rpos
\* past wbuf.wpos.
C33_CursorInvariant ==
    /\ CursorsOk(rbuf) /\ CursorsOk(wbuf)
    /\ Last.op = "stream_read" =>
          /\ CursorsOk(Last.post.rbuf)
          /\ Last.ret > 0 => Last.ret <= MbufCap - AfterPreRead(Last).wpos
    /\ Last.op = "stream_write" =>
          /\ CursorsOk(Last.post.wbuf)
          /\ Last.ret > 0 =>
                Last.ret <= AfterPreWrite(Last).wpos - AfterPreWrite(Last).rpos

\* a stream_read has filled rbuf to its very end
C33_Witness ==
    /\ Last.op = "stream_read"
    /\ Last.ret > 0
    /\ Last.pre.rbuf.wpos < MbufCap
    /\ rbuf.wpos = MbufCap

\* C34: recv_nbyte and send_nbyte are cumulative and never decrease: after
\* any sequence of conn_recv, conn_recvv, conn_send and conn_sendv calls,
\* recv_nbyte (send_nbyte) is the sum of the positive values the receive
\* (send) calls returned, and a call that returns 0, CC_EAGAIN or CC_ERROR
\* leaves the counter as it was.
C34_ByteCounters ==
    /\ conn.recv_nbyte = Last.rsum
    /\ conn.send_nbyte = Last.ssum
    /\ conn.recv_nbyte >= Last.pre.recv_nbyte
    /\ conn.send_nbyte >= Last.pre.send_nbyte
    /\ Last.op \in {"conn_recv", "conn_recvv"} =>
          /\ conn.send_nbyte = Last.pre.send_nbyte
          /\ Last.ret > 0 => conn.recv_nbyte = Last.pre.recv_nbyte + Last.ret
          /\ Last.ret \in {0, CC_EAGAIN, CC_ERROR} =>
                conn.recv_nbyte = Last.pre.recv_nbyte
    /\ Last.op \in {"conn_send", "conn_sendv"} =>
          /\ conn.recv_nbyte = Last.pre.recv_nbyte
          /\ Last.ret > 0 => conn.send_nbyte = Last.pre.send_nbyte + Last.ret
          /\ Last.ret \in {0, CC_EAGAIN, CC_ERROR} =>
                conn.send_nbyte = Last.pre.send_nbyte

\* a conn_sendv that sent less than asked, after earlier sends and receives
C34_Witness ==
    /\ Last.op = "conn_sendv"
    /\ 0 < Last.ret /\ Last.ret < Last.nbyte
    /\ Last.pre.send_nbyte > 0
    /\ Last.rsum > 0
    /\ conn.send_nbyte = Last.pre.send_nbyte + Last.ret

\* what the socket took in the last call: the room its send buffer lost
SockTook(L) == L.pre.sock.txfree - L.post.sock.txfree

\* in the writer no ASSERT of conn_send fails, and the bytes the socket takes
\* are those from wbuf.rpos on, which then moves past exactly these bytes
WriterSafe ==
    /\ ~aborted
    /\ ~Last.asserted
    /\ conn.send_nbyte = wbuf.rpos
    /\ Last.op = "stream_write" =>
          /\ Last.called => Last.pre.conn.send_ready /\ Last.req = MbufRsize(Last.pre.wbuf)
          /\ Last.post.wbuf.rpos = Last.pre.wbuf.rpos + SockTook(Last)
          /\ Last.post.wbuf.wpos = Last.pre.wbuf.wpos
          /\ Last.status = CC_OK <=> (Last.called /\ MbufRsize(Last.post.wbuf) = 0)
          /\ Last.status \in {CC_ERETRY, CC_EAGAIN} => ~Last.post.conn.send_ready

\* C32: a caller that answers CC_ERETRY and CC_EAGAIN from stream_write by
\* waiting for the next WRITE notification never calls conn_send with
\* send_ready clear and sends no byte of wbuf twice and skips none; and where
\* the socket takes bytes again after each short write and no fatal error
\* occurs, wbuf is in the end drained and stream_write returns CC_OK.
C32_WriteProgress ==
    /\ []WriterSafe
    /\ [](sock.err = 0) =>
          ((MbufRsize(wbuf) > 0) ~>
             (MbufRsize(wbuf) = 0 /\ Last.op = "stream_write" /\ Last.status = CC_OK))

\* a stream_write that, called again after a short write and the WRITE
\* notification that followed it, sent the rest of wbuf
C32_Witness ==
    /\ Last.op = "stream_write" /\ Last.status = CC_OK
    /\ Last.pre.wbuf.rpos > 0 /\ Last.pre.sock.txfree < SndBuf
    /\ MbufRsize(Last.pre.wbuf) > 0
    /\ MbufRsize(wbuf) = 0

\* the results of the epoll_wait calls of this event_wait but the last
Earlier(w) == IF w.pc = "epoll_wait" THEN w.sys ELSE SubSeq(w.sys, 1, Len(w.sys) - 1)

\* each epoll_wait was handed the caller's timeout; every result before the
\* one that ended the wait was EINTR, and that one was not
WaitRestarts ==
    wait.pc # "idle" =>
        /\ Len(wait.asked) = Len(Earlier(wait)) + 1
        /\ \A i \in 1..Len(wait.asked) : wait.asked[i] = wait.timeout
        /\ \A i \in 1..Len(Earlier(wait)) : wait.sys[i] = Fail(EINTR)
        /\ wait.pc # "epoll_wait" =>
              /\ Len(wait.sys) >= 1
              /\ wait.sys[Len(wait.sys)] # Fail(EINTR)

\* C35: event_wait returns whenever its epoll_wait is interrupted only
\* finitely many times: after each EINTR it calls epoll_wait again with the
\* timeout the caller gave, and the first result other than EINTR (records,
\* none, another error) makes it return.
C35_WaitTerminates ==
    /\ []WaitRestarts
    /\ (wait.pc = "epoll_wait") ~> (wait.pc = "done")

\* an event_wait with a positive timeout that returned after an interrupted
\* epoll_wait
C35_Witness ==
    /\ wait.pc = "done"
    /\ wait.timeout > 0
    /\ Len(wait.sys) > 1
    /\ wait.sys[1] = Fail(EINTR)
    /\ wait.asked = <<wait.timeout, wait.timeout>>

\* C36: event_base_create returns either an event base with its kernel
\* handle, an event array of nevent slots and the callback, or NULL with
\* nothing left behind: a handle it opened is closed again and an event
\* array it allocated is freed again.
C36_CreateAllOrNothing ==
    \A b \in DOMAIN heap :
        /\ heap[b].state = "live" =>
              /\ heap[b].ep > 0
              /\ heap[b].nevent \in 1..MaxNevent /\ heap[b].slots = heap[b].nevent
              /\ heap[b].cb \in {"NULL", "cb"}
              /\ heap[b].opens = 1 /\ heap[b].event_allocs = 1 /\ heap[b].allocs = 1
              /\ heap[b].closes = 0 /\ heap[b].event_frees = 0 /\ heap[b].frees = 0
        /\ heap[b].state = "failed" =>
              /\ heap[b].ep = -1 /\ heap[b].allocs = 0
              /\ heap[b].closes = heap[b].opens
              /\ heap[b].event_frees = heap[b].event_allocs
              /\ heap[b].opens = (IF heap[b].fail = "epoll_create" THEN 0 ELSE 1)
              /\ heap[b].event_allocs = (IF heap[b].fail = "cc_alloc" THEN 1 ELSE 0)

\* an event_base_create whose cc_alloc failed, beside one that succeeded
C36_Witness ==
    \E b, b2 \in DOMAIN heap :
        /\ heap[b].state = "failed" /\ heap[b].fail = "cc_alloc"
        /\ heap[b].closes = 1 /\ heap[b].event_frees = 1
        /\ heap[b2].state = "live"

\* C37: every stream on the free list of the stream pool meets what
\* stream_destroy asserts, its handler being set, so that stream_pool_destroy
\* trips no assertion on any of them.
C37_FreeListDestroyable ==
    /\ ~aborted
    /\ \A i \in 1..Len(pool.p.freeq) : pool.objs[pool.p.freeq[i]].bound

\* the table option_load_file is given: the declared one with its defaults
DefaultTable == LoadDefault(Setting, 1).table

\* the option of the table a line names, 0 if the line is a comment, does
\* not parse or names none
Names(line) ==
    LET parsed == OptionParse(line) IN
    IF parsed.status = CC_OK THEN Match(Setting, parsed.name) ELSE 0

\* a line option_load_file fails on: it does not parse, names no option,
\* or carries a value its option rejects
BadLine(line) ==
    LET parsed == OptionParse(line) IN
    /\ parsed.status # CC_EEMPTY
    /\ \/ parsed.status # CC_OK
       \/ Names(line) = 0
       \/ OptionSet(DefaultTable[Names(line)], "valbuf", parsed.val).status # CC_OK

\* the first line of the file that fails, one past the file if none does
FirstBad(file) ==
    IF \E k \in 1..Len(file) : BadLine(file[k])
    THEN CHOOSE k \in 1..Len(file) :
             BadLine(file[k]) /\ \A j \in 1..(k - 1) : ~BadLine(file[j])
    ELSE Len(file) + 1

\* the lines before the first failing one that name option i
Naming(file, i) == {j \in 1..(FirstBad(file) - 1) : Names(file[j]) = i}

\* option i after the load: as the last of these lines sets it, else as
\* option_load_default left it
AfterLoad(file, i) ==
    IF Naming(file, i) = {} THEN DefaultTable[i]
    ELSE LET j == CHOOSE j \in Naming(file, i) : \A k \in Naming(file, i) : k <= j
         IN OptionSet(DefaultTable[i], "valbuf", OptionParse(file[j]).val).opt

\* C38: option_load_file takes the lines in file order and stops at the
\* first that does not parse, names no known option or carries a value its
\* option rejects: it then returns CC_ERROR, the options named on earlier
\* lines keep what these lines applied, and no later line is applied; of
\* several lines naming one option the last one before the stop decides.
C38_LoadStopsAtFirstError ==
    options.op = "option_load_file" =>
        /\ options.status =
              (IF FirstBad(options.file) <= Len(options.file) THEN CC_ERROR ELSE CC_OK)
        /\ \A i \in 1..Len(Setting) : options.table[i] = AfterLoad(options.file, i)

\* base to the power n
RECURSIVE Power(_, _)
Power(base, n) == IF n = 0 THEN 1 ELSE base * Power(base, n - 1)

\* the number the digits of text from position from on stand for: each
\* digit times the power of the base its place has
RECURSIVE Number(_, _, _)
Number(text, from, base) ==
    IF from > Len(text) THEN 0
    ELSE DigitOf(text[from]) * Power(base, Len(text) - from) + Number(text, from + 1, base)

\* text is all digits of the base from position from on
AllDigits(text, from, base) == \A i \in from..Len(text) : DigitOf(text[i]) < base

\* the number a value string stands for in full, -1 if it is no number:
\* 0x and hexadecimal digits, 0 and octal digits, or decimal digits
Literal(text) ==
    IF Len(text) >= 3 /\ text[1] = "0" /\ text[2] = "x"
    THEN (IF AllDigits(text, 3, 16) THEN Number(text, 3, 16) ELSE -1)
    ELSE IF Len(text) >= 1 /\ text[1] = "0"
    THEN (IF AllDigits(text, 1, 8) THEN Number(text, 1, 8) ELSE -1)
    ELSE (IF AllDigits(text, 1, 10) THEN Number(text, 1, 10) ELSE -1)

\* C39: option_set is all or nothing: a rejected value string (a boolean
\* other than yes and no, an unsigned integer that is not a number in full
\* or overflows, an option of unknown type) returns CC_ERROR and leaves the
\* set flag and the stored value as they were; CC_OK for a boolean or an
\* unsigned integer leaves the option set and holding the parsed value.
C39_SetAllOrNothing ==
    LET o == options.opt
        was == options.pre
        text == options.text
    IN
    options.op = "option_set" =>
        /\ options.status = CC_ERROR => o = was
        /\ o.type = "OPTION_TYPE_BOOL" =>
              /\ options.status = (IF text \in {<<"y", "e", "s">>, <<"n", "o">>}
                                   THEN CC_OK ELSE CC_ERROR)
              /\ options.status = CC_OK =>
                    o = [was EXCEPT !.set = TRUE, !.vbool = (text = <<"y", "e", "s">>)]
        /\ o.type = "OPTION_TYPE_UINT" =>
              /\ options.status = (IF Literal(text) >= 0 /\ Literal(text) < UINTMAX_MAX
                                   THEN CC_OK ELSE CC_ERROR)
              /\ options.status = CC_OK =>
                    o = [was EXCEPT !.set = TRUE, !.vuint = Literal(text)]
        /\ o.type = "unknown" => options.status = CC_ERROR

\* an unsigned integer option that held 8 and was given a number that
\* overflows
C39_Witness ==
    /\ options.op = "option_set"
    /\ options.opt.type = "OPTION_TYPE_UINT"
    /\ options.pre.set /\ options.pre.vuint = 8
    /\ options.text = <<"9", "9", "9">>
    /\ options.status = CC_ERROR
    /\ options.opt.set /\ options.opt.vuint = 8

====
